---- MODULE Spec2Model ----
(***************************************************************************)
(* ClearFlow: the flow builders (clearflow/_internal/flow_impl.py and      *)
(* clearflow/message_flow.py), the MessageFlow executor with its callback  *)
(* surface (clearflow/message_flow.py) and the ObservableFlow wrapper      *)
(* (clearflow/observer.py).                                                *)
(***************************************************************************)
EXTENDS Naturals, Integers, Sequences, FiniteSets, TLC

(***************************************************************************)
(* Bounds of the model.                                                    *)
(***************************************************************************)
\* builder objects that are kept alive at once (later results are dropped
\* after the call that made them)
MaxBuilders == 2
\* routes of the flows the executor is run on (the terminal entry excluded)
MaxRoutes == 1
\* node invocations of one execution
MaxHops == 3
\* observer registrations of an ObservableFlow
MaxObservers == 2
\* flows kept from the end calls made on one builder
MaxFlows == 2
\* sub-handlers of a CompositeHandler
MaxHandlers == 2
\* message objects that are constructed
MaxMessages == 2
\* node objects that are constructed
MaxNodes == 2

(***************************************************************************)
(* The universe of nodes, message types and handlers.                      *)
(***************************************************************************)
\* A node is a frozen model: equal when class and fields are equal.
\* nA and nC are distinct nodes that carry the same name.
nA == [cls |-> "StartNode", name |-> "a"]
nB == [cls |-> "TransformNode", name |-> "b"]
nC == [cls |-> "ValidateNode", name |-> "a"]
Nodes == {nA, nB, nC}
NodeNames == {n.name : n \in Nodes}

\* None, as the destination of the terminal route
None == [cls |-> "NoneType", name |-> "None"]

\* Concrete message types; "Message" is their common base class.
MsgTypes == {"CmdT", "EvtT"}
issubclass(t, u) == t = u \/ u = "Message"

\* The annotations of process() per node class: the empty set stands for
\* hints that cannot be determined.
DeclaredOut(cls) ==
    CASE cls = "StartNode" -> {}
      [] cls = "TransformNode" -> {"EvtT"}
      [] cls = "ValidateNode" -> {"CmdT", "EvtT"}
      [] OTHER -> {}
DeclaredIn(cls) ==
    CASE cls = "StartNode" -> {}
      [] cls = "TransformNode" -> {"Message"}
      [] cls = "ValidateNode" -> {"EvtT"}
      [] OTHER -> {}

FlowName == "flow"

\* callbacks: None, or a handler object
NoCallbacks == [kind |-> "None"]
Handlers == {[kind |-> "Handler", id |-> "H"]}
\* flow_impl wraps the observers in its internal handler
ObserverTuples == {<<>>, <<"obs1">>}
CallbackHandler(observers) == [kind |-> "CallbackHandler", observers |-> observers]

\* Results of the builder operations: a value, or the exception raised.
Ok(v) == [ok |-> TRUE, val |-> v]
Raise(exc, reason, node, type) ==
    [ok |-> FALSE, err |-> [exc |-> exc, reason |-> reason, node |-> node, type |-> type]]
NoError == [exc |-> "none", reason |-> "none", node |-> "none", type |-> "none"]

(***************************************************************************)
(* flow_impl.py: _FlowBuilder.  routes is a tuple of (key, destination)    *)
(* entries, key = (from_node, outcome).                                    *)
(***************************************************************************)
_get_node_output_types(node) == DeclaredOut(node.cls)
_get_node_input_types(node) == DeclaredIn(node.cls)

_validate_output_type(from_node, outcome) ==
    LET valid_outputs == _get_node_output_types(from_node)
    IN  IF valid_outputs # {} /\ outcome \notin valid_outputs
        THEN Raise("TypeError", "cannot output", from_node.cls, outcome)
        ELSE Ok(TRUE)

\* compatibility by membership instead of issubclass
_is_type_compatible_exact(outcome, valid_inputs) ==
    outcome \in valid_inputs

_is_type_compatible(outcome, valid_inputs) ==
    \E input_t \in valid_inputs : issubclass(outcome, input_t)

_validate_input_type(to_node, outcome) ==
    LET valid_inputs == _get_node_input_types(to_node)
    IN  IF valid_inputs # {} /\ ~_is_type_compatible(outcome, valid_inputs)
        THEN Raise("TypeError", "cannot accept", to_node.cls, outcome)
        ELSE Ok(TRUE)

_validate_route_types(from_node, outcome, to_node) ==
    LET o == _validate_output_type(from_node, outcome)
    IN  IF ~o.ok THEN o ELSE _validate_input_type(to_node, outcome)

_check_node_reachability(self, from_node, is_termination) ==
    IF from_node.name \notin self.reachable_nodes
    THEN Raise("ValueError", "not reachable from start", from_node.name, "none")
    ELSE Ok(TRUE)

\* the duplicate check with keys compared by object identity: a key tuple
\* made for this call is never the stored one
_check_duplicate_route_identity(self, route_key, from_node, outcome) ==
    Ok(TRUE)

_check_duplicate_route(self, route_key, from_node, outcome) ==
    IF \E i \in DOMAIN self.routes : self.routes[i].key = route_key
    THEN Raise("ValueError", "Route already defined", from_node.cls, outcome)
    ELSE Ok(TRUE)

_validate_and_create_route(self, from_node, outcome, to_node, is_termination) ==
    LET reach == _check_node_reachability(self, from_node, is_termination)
        route_key == <<from_node, outcome>>
        dup == _check_duplicate_route(self, route_key, from_node, outcome)
        types == IF ~is_termination /\ to_node # None
                 THEN _validate_route_types(from_node, outcome, to_node)
                 ELSE Ok(TRUE)
    IN  IF ~reach.ok THEN reach
        ELSE IF ~dup.ok THEN dup
        ELSE IF ~types.ok THEN types
        ELSE Ok(route_key)

create_flow(name, starting_node) ==
    [name |-> name, starting_node |-> starting_node, routes |-> <<>>,
     reachable_nodes |-> {starting_node.name}, callbacks |-> NoCallbacks]

observe(self, observers) ==
    LET handler == IF observers # <<>> THEN CallbackHandler(observers) ELSE self.callbacks
    IN  [name |-> self.name, starting_node |-> self.starting_node, routes |-> self.routes,
         reachable_nodes |-> self.reachable_nodes, callbacks |-> handler]

\* route that puts the new entry in front of the others
route_prepends(self, from_node, outcome, to_node) ==
    LET k == _validate_and_create_route(self, from_node, outcome, to_node, FALSE)
    IN  IF ~k.ok THEN k
        ELSE Ok([name |-> self.name, starting_node |-> self.starting_node,
                 routes |-> <<[key |-> k.val, dest |-> to_node]>> \o self.routes,
                 reachable_nodes |-> self.reachable_nodes \cup {to_node.name},
                 callbacks |-> self.callbacks])

\* route that leaves reachable_nodes as it was
route_forgets_reachable(self, from_node, outcome, to_node) ==
    LET k == _validate_and_create_route(self, from_node, outcome, to_node, FALSE)
    IN  IF ~k.ok THEN k
        ELSE Ok([name |-> self.name, starting_node |-> self.starting_node,
                 routes |-> Append(self.routes, [key |-> k.val, dest |-> to_node]),
                 reachable_nodes |-> self.reachable_nodes,
                 callbacks |-> self.callbacks])

route(self, from_node, outcome, to_node) ==
    LET k == _validate_and_create_route(self, from_node, outcome, to_node, FALSE)
    IN  IF ~k.ok THEN k
        ELSE Ok([name |-> self.name, starting_node |-> self.starting_node,
                 routes |-> Append(self.routes, [key |-> k.val, dest |-> to_node]),
                 reachable_nodes |-> self.reachable_nodes \cup {to_node.name},
                 callbacks |-> self.callbacks])

\* complete_flow that hands the builder's routes to the flow as they are
complete_flow_keeps_routes(self, from_node, final_outcome) ==
    LET k == _validate_and_create_route(self, from_node, final_outcome, None, TRUE)
    IN  IF ~k.ok THEN k
        ELSE Ok([name |-> self.name, starting_node |-> self.starting_node,
                 routes |-> self.routes,
                 callbacks |-> self.callbacks])

complete_flow(self, from_node, final_outcome) ==
    LET k == _validate_and_create_route(self, from_node, final_outcome, None, TRUE)
    IN  IF ~k.ok THEN k
        ELSE Ok([name |-> self.name, starting_node |-> self.starting_node,
                 routes |-> Append(self.routes, [key |-> k.val, dest |-> None]),
                 callbacks |-> self.callbacks])

\* the lookup with a scan that starts at the second entry
_get_next_node_skips_first(self, message, current_node) ==
    LET route_key == <<current_node, message.type>>
        hits == {i \in DOMAIN self.routes \ {1} : self.routes[i].key = route_key}
    IN  IF hits = {}
        THEN Raise("ValueError", "No route defined", current_node.cls, message.type)
        ELSE Ok(self.routes[CHOOSE i \in hits : \A j \in hits : i <= j].dest)

\* _Flow._get_next_node: linear scan, the first entry whose key matches
_get_next_node(self, message, current_node) ==
    LET route_key == <<current_node, message.type>>
        hits == {i \in DOMAIN self.routes : self.routes[i].key = route_key}
    IN  IF hits = {}
        THEN Raise("ValueError", "No route defined", current_node.cls, message.type)
        ELSE Ok(self.routes[CHOOSE i \in hits : \A j \in hits : i <= j].dest)

(***************************************************************************)
(* message_flow.py: _MessageFlowBuilder.  routes is a mapping from         *)
(* (outcome, node name) to the destination.                                *)
(***************************************************************************)
\* the validation without the duplicate check: the new entry replaces the
\* old one in the mapping
MF_validate_and_create_route_overwrites(self, from_node_name, outcome, is_termination) ==
    IF from_node_name \notin self.reachable_nodes
    THEN Raise("ValueError", "not reachable from start", from_node_name, "none")
    ELSE Ok(<<outcome, from_node_name>>)

MF_validate_and_create_route(self, from_node_name, outcome, is_termination) ==
    LET route_key == <<outcome, from_node_name>>
    IN  IF from_node_name \notin self.reachable_nodes
        THEN Raise("ValueError", "not reachable from start", from_node_name, "none")
        ELSE IF route_key \in DOMAIN self.routes
        THEN Raise("ValueError", "Route already defined", from_node_name, outcome)
        ELSE Ok(route_key)

message_flow(name, start_node) ==
    [name |-> name, start_node |-> start_node, routes |-> <<>>,
     reachable_nodes |-> {start_node.name}, callbacks |-> NoCallbacks]

\* with_callbacks that keeps a handler the builder already has
with_callbacks_keeps_first(self, handler) ==
    [name |-> self.name, start_node |-> self.start_node, routes |-> self.routes,
     reachable_nodes |-> self.reachable_nodes,
     callbacks |-> IF self.callbacks = NoCallbacks THEN handler ELSE self.callbacks]

with_callbacks(self, handler) ==
    [name |-> self.name, start_node |-> self.start_node, routes |-> self.routes,
     reachable_nodes |-> self.reachable_nodes, callbacks |-> handler]

\* {**routes, key: value}
DictSet(d, k, v) == [x \in DOMAIN d \cup {k} |-> IF x = k THEN v ELSE d[x]]

MF_route(self, from_node, outcome, to_node) ==
    LET k == MF_validate_and_create_route(self, from_node.name, outcome, FALSE)
    IN  IF ~k.ok THEN k
        ELSE Ok([name |-> self.name, start_node |-> self.start_node,
                 routes |-> DictSet(self.routes, k.val, to_node),
                 reachable_nodes |-> self.reachable_nodes \cup {to_node.name},
                 callbacks |-> self.callbacks])

MF_end(self, from_node, outcome) ==
    LET k == MF_validate_and_create_route(self, from_node.name, outcome, TRUE)
    IN  IF ~k.ok THEN k
        ELSE Ok([name |-> self.name, start_node |-> self.start_node,
                 routes |-> DictSet(self.routes, k.val, None),
                 callbacks |-> self.callbacks])

(***************************************************************************)
(* message_flow.py: MessageFlow, the executor.                             *)
(***************************************************************************)
\* A message object: its concrete type and its identity (messages made at
\* different hops are different objects).
Msg(type, id) == [type |-> type, id |-> id]
NoMsg == [type |-> "none", id |-> 0]

\* What a call of node.process may do: return a message of some concrete
\* type, or raise.
Outcomes == MsgTypes \cup {"raise"}
NodeError(node) == [exc |-> "RuntimeError", reason |-> "node failed", node |-> node.name, type |-> "none"]
HookError(method) == [exc |-> "HookError", reason |-> method, node |-> "none", type |-> "none"]

\* _safe_callback without its try/except: the hook's exception leaves it
_safe_callback_unguarded(callbacks, method, raises) ==
    IF callbacks = NoCallbacks
    THEN [called |-> FALSE, logged |-> FALSE, exc |-> NoError, to |-> callbacks,
          raised |-> FALSE]
    ELSE [called |-> TRUE, logged |-> FALSE, to |-> callbacks, raised |-> raises,
          exc |-> IF raises THEN HookError(method) ELSE NoError]

\* _safe_callback whose except clause writes nothing
_safe_callback_silent(callbacks, method, raises) ==
    IF callbacks = NoCallbacks
    THEN [called |-> FALSE, logged |-> FALSE, exc |-> NoError, to |-> callbacks,
          raised |-> FALSE]
    ELSE [called |-> TRUE, logged |-> FALSE, exc |-> NoError, to |-> callbacks,
          raised |-> raises]

\* _safe_callback without its "if not self.callbacks: return": getattr on
\* None fails inside the try and a line goes to stderr
_safe_callback_no_early_return(callbacks, method, raises) ==
    IF callbacks = NoCallbacks
    THEN [called |-> FALSE, logged |-> TRUE, exc |-> NoError, to |-> callbacks,
          raised |-> FALSE]
    ELSE [called |-> TRUE, logged |-> raises, exc |-> NoError, to |-> callbacks,
          raised |-> raises]

\* _safe_callback: whether the hook is called, whether a line goes to
\* stderr, and the exception that leaves _safe_callback (NoError: none).
\* raises: the hook raises an Exception at this call.  to: the object whose
\* method is called.  raised: whether the call of the hook raised.
_safe_callback(callbacks, method, raises) ==
    IF callbacks = NoCallbacks
    THEN [called |-> FALSE, logged |-> FALSE, exc |-> NoError, to |-> callbacks,
          raised |-> FALSE]
    ELSE [called |-> TRUE, logged |-> raises, exc |-> NoError, to |-> callbacks,
          raised |-> raises]

\* _get_next_node as a plain routes.get(): a missing key reads as None
MF_get_next_node_get(self, message, current_node) ==
    LET route_key == <<message.type, current_node.name>>
    IN  IF route_key \notin DOMAIN self.routes THEN Ok(None)
        ELSE Ok(self.routes[route_key])

\* _get_next_node: the destination for (type(message), current_node.name)
MF_get_next_node(self, message, current_node) ==
    LET route_key == <<message.type, current_node.name>>
    IN  IF route_key \notin DOMAIN self.routes
        THEN Raise("ValueError", "No route defined", current_node.name, message.type)
        ELSE Ok(self.routes[route_key])

\* The flows the builder can produce with at most MaxRoutes route calls.
ExecNodes == {nA, nB}
RECURSIVE MFBuildersAfter(_)
MFBuildersAfter(k) ==
    IF k = 0 THEN {message_flow(FlowName, s) : s \in ExecNodes}
    ELSE LET P == MFBuildersAfter(k - 1)
             calls == {c \in P \X ExecNodes \X MsgTypes \X ExecNodes :
                          MF_route(c[1], c[2], c[3], c[4]).ok}
         IN  P \cup {MF_route(c[1], c[2], c[3], c[4]).val : c \in calls}
MFEndCalls ==
    {c \in MFBuildersAfter(MaxRoutes) \X ExecNodes \X MsgTypes : MF_end(c[1], c[2], c[3]).ok}

(***************************************************************************)
(* observer.py: ObservableFlow.  observers maps a message type to a tuple  *)
(* of observers; the mapping keeps the order in which its keys were added. *)
(***************************************************************************)
ObservedTypes == MsgTypes \cup {"Message"}

\* the tuple registered for message_type, () when there is none
DictGet(observers, message_type) ==
    IF \E i \in DOMAIN observers : observers[i].type = message_type
    THEN observers[CHOOSE i \in DOMAIN observers : observers[i].type = message_type].obs
    ELSE <<>>

ObservableFlow(core_flow) == [core_flow |-> core_flow, observers |-> <<>>]

\* ObservableFlow.observe: {**observers, message_type: (*current, observer)}
OF_observe(self, message_type, observer) ==
    LET current == DictGet(self.observers, message_type)
        entry == [type |-> message_type, obs |-> Append(current, observer)]
    IN  [self EXCEPT !.observers =
            IF \E i \in DOMAIN self.observers : self.observers[i].type = message_type
            THEN [i \in DOMAIN self.observers |->
                     IF self.observers[i].type = message_type THEN entry ELSE self.observers[i]]
            ELSE Append(self.observers, entry)]

\* _get_observers_for: the exact type's observers, then those of every
\* other registered type the message type is a subclass of
RECURSIVE BaseTypeObservers(_, _, _)
BaseTypeObservers(observers, message_type, i) ==
    IF i > Len(observers) THEN <<>>
    ELSE (IF observers[i].type # message_type /\ issubclass(message_type, observers[i].type)
          THEN observers[i].obs ELSE <<>>)
         \o BaseTypeObservers(observers, message_type, i + 1)

\* the lookup without the walk over the base types
_get_observers_for_exact(self, message_type) ==
    DictGet(self.observers, message_type)

_get_observers_for(self, message_type) ==
    DictGet(self.observers, message_type) \o BaseTypeObservers(self.observers, message_type, 1)

\* _safe_observe: whether the observer's exception is logged and whether
\* it leaves _safe_observe (NoError: it does not)
ObserverError(observer) == [exc |-> "ObserverError", reason |-> observer, node |-> "none", type |-> "none"]
_safe_observe(observer, raises) ==
    [logged |-> raises, exc |-> NoError]

\* the ObservableFlows made by at most MaxObservers observe calls; the k-th
\* call registers observer k
ObserverOf(k) == IF k = 1 THEN "obs1" ELSE IF k = 2 THEN "obs2" ELSE "obs3"
RECURSIVE OFAfter(_, _)
OFAfter(core_flow, k) ==
    IF k = 0 THEN {ObservableFlow(core_flow)}
    ELSE LET P == OFAfter(core_flow, k - 1)
         IN  P \cup {OF_observe(f, T, ObserverOf(k)) :
                        f \in {g \in P : \A i \in DOMAIN g.observers :
                                            Len(g.observers[i].obs) < k}, T \in ObservedTypes}

(***************************************************************************)
(* State.                                                                  *)
(*   api       which builder is exercised: "impl" (flow_impl.py) or "msg"  *)
(*             (message_flow.py)                                           *)
(*   builders  the builder objects that are alive, in order of creation    *)
(*   last      the last builder call: operation, receiver, the exception   *)
(*             raised and the object returned                              *)
(*   run       the executions of MessageFlow.process                       *)
(*   beh       what node.process did on each (node, message) it was given  *)
(***************************************************************************)
VARIABLES api, builders, last, run, beh

vars == <<api, builders, last, run, beh>>

NoResult == [kind |-> "NoResult"]
NoCall == [op |-> "none", on |-> 0, args |-> <<>>, err |-> NoError, res |-> NoResult]
NoRuns == <<>>

(***************************************************************************)
(* The builder calls.  A call on builder object i either returns a new     *)
(* object or raises; the receiver is only read.                            *)
(***************************************************************************)
Keep(heap, r) == IF r.ok /\ Len(heap) < MaxBuilders THEN Append(heap, r.val) ELSE heap
Called(op, i, args, r) ==
    [op |-> op, on |-> i, args |-> args,
     err |-> IF r.ok THEN NoError ELSE r.err,
     res |-> IF r.ok THEN r.val ELSE NoResult]

\* route that appends to the receiver instead of making a new builder
ImplRoute_in_place(i, from_node, outcome, to_node) ==
    /\ api = "impl"
    /\ LET r == route(builders[i], from_node, outcome, to_node)
       IN  /\ builders' = IF r.ok THEN [builders EXCEPT ![i] = r.val] ELSE builders
           /\ last' = Called("route", i, <<from_node, outcome, to_node>>, r)
    /\ UNCHANGED <<api, run, beh>>

ImplRoute(i, from_node, outcome, to_node) ==
    /\ api = "impl"
    /\ LET r == route(builders[i], from_node, outcome, to_node)
       IN  /\ builders' = Keep(builders, r)
           /\ last' = Called("route", i, <<from_node, outcome, to_node>>, r)
    /\ UNCHANGED <<api, run, beh>>

ImplObserve(i, observers) ==
    /\ api = "impl"
    /\ LET r == Ok(observe(builders[i], observers))
       IN  /\ builders' = Keep(builders, r)
           /\ last' = Called("observe", i, <<>>, r)
    /\ UNCHANGED <<api, run, beh>>

ImplCompleteFlow(i, from_node, final_outcome) ==
    /\ api = "impl"
    /\ last' = Called("end", i, <<from_node, final_outcome>>,
                      complete_flow(builders[i], from_node, final_outcome))
    /\ UNCHANGED <<api, builders, run, beh>>

MFRoute(i, from_node, outcome, to_node) ==
    /\ api = "msg"
    /\ LET r == MF_route(builders[i], from_node, outcome, to_node)
       IN  /\ builders' = Keep(builders, r)
           /\ last' = Called("route", i, <<from_node, outcome, to_node>>, r)
    /\ UNCHANGED <<api, run, beh>>

MFWithCallbacks(i, handler) ==
    /\ api = "msg"
    /\ LET r == Ok(with_callbacks(builders[i], handler))
       IN  /\ builders' = Keep(builders, r)
           /\ last' = Called("observe", i, <<>>, r)
    /\ UNCHANGED <<api, run, beh>>

MFEnd(i, from_node, outcome) ==
    /\ api = "msg"
    /\ last' = Called("end", i, <<from_node, outcome>>,
                      MF_end(builders[i], from_node, outcome))
    /\ UNCHANGED <<api, builders, run, beh>>

InitBuild ==
    /\ api \in {"impl", "msg"}
    /\ \E s \in Nodes :
          builders = IF api = "impl" THEN <<create_flow(FlowName, s)>>
                     ELSE <<message_flow(FlowName, s)>>
    /\ last = NoCall
    /\ run = NoRuns
    /\ beh = <<>>

(***************************************************************************)
(* MessageFlow.process, one action per await.  run[e] is the frame of      *)
(* execution e: the flow it runs, the locals of process, and what the      *)
(* outside world saw of it (hook calls, stderr lines, node invocations,    *)
(* the value returned or the exception raised).                            *)
(***************************************************************************)
Execs == {"plain", "hooked"}

\* history: whether the observations (trace, stderr, invoked, hops, message
\* identities) are recorded; they are not part of the program's state.
NewRun(flow, message, history) ==
    [flow |-> flow, message |-> message, pc |-> "flow_start", history |-> history,
     current_node |-> None, current_message |-> NoMsg, output_message |-> NoMsg,
     error |-> NoError, hops |-> 0,
     trace |-> <<>>, stderr |-> <<>>, invoked |-> <<>>, dispatched |-> {},
     raised |-> <<>>,
     result |-> [kind |-> "none", message |-> NoMsg, error |-> NoError]]

\* the effect of one _safe_callback call on what the world saw
Emit(r, c, method, name, message, error) ==
    [r EXCEPT !.trace = IF c.called /\ r.history
                        THEN Append(@, [hook |-> method, name |-> name,
                                        message |-> message, error |-> error])
                        ELSE @,
              !.dispatched = IF c.called /\ r.history THEN @ \cup {c.to} ELSE @,
              !.raised = IF c.raised /\ r.history THEN Append(@, method) ELSE @,
              !.stderr = IF c.logged /\ r.history THEN Append(@, method) ELSE @]

Raised(r, error) ==
    [r EXCEPT !.pc = "done", !.result = [kind |-> "raise", message |-> NoMsg, error |-> error]]
Returned(r, message) ==
    [r EXCEPT !.pc = "done", !.result = [kind |-> "return", message |-> message, error |-> NoError]]

\* process: on_flow_start, then current_node, current_message are set
FlowStart(e, raises) ==
    /\ run[e].pc = "flow_start"
    /\ LET r == run[e]
           c == _safe_callback(r.flow.callbacks, "on_flow_start", raises)
           r1 == Emit(r, c, "on_flow_start", r.flow.name, r.message, NoError)
       IN  run' = [run EXCEPT ![e] =
                IF c.exc # NoError THEN Raised(r1, c.exc)
                ELSE [r1 EXCEPT !.pc = "node_start",
                                !.current_node = r.flow.start_node,
                                !.current_message = r.message]]
    /\ UNCHANGED <<api, builders, last, beh>>

\* _execute_node: on_node_start
NodeStart(e, raises) ==
    /\ run[e].pc = "node_start"
    /\ LET r == run[e]
           c == _safe_callback(r.flow.callbacks, "on_node_start", raises)
           r1 == Emit(r, c, "on_node_start", r.current_node.name, r.current_message, NoError)
       IN  run' = [run EXCEPT ![e] =
                IF c.exc # NoError THEN [r1 EXCEPT !.pc = "flow_end", !.error = c.exc]
                ELSE [r1 EXCEPT !.pc = "process"]]
    /\ UNCHANGED <<api, builders, last, beh>>

\* _execute_node: output = await node.process(message)
Process(e, o) ==
    /\ run[e].pc = "process"
    /\ run[e].history => run[e].hops < MaxHops
    /\ LET r == run[e]
           call == <<r.current_node, r.current_message>>
       IN  /\ IF call \in DOMAIN beh THEN o = beh[call] ELSE TRUE
           /\ beh' = DictSet(beh, call, o)
           /\ run' = [run EXCEPT ![e] =
                [r EXCEPT !.pc = "node_end",
                          !.hops = IF r.history THEN @ + 1 ELSE @,
                          !.invoked = IF r.history
                                      THEN Append(@, [node |-> r.current_node,
                                                      message |-> r.current_message])
                                      ELSE @,
                          !.error = IF o = "raise" THEN NodeError(r.current_node) ELSE NoError,
                          !.output_message = IF o = "raise" THEN NoMsg
                                             ELSE Msg(o, IF r.history
                                                         THEN r.current_message.id + 1
                                                         ELSE 0)]]
    /\ UNCHANGED <<api, builders, last>>

\* on_node_end that reports the (absent) output also when the node raised
NodeEnd_reports_output(e, raises) ==
    /\ run[e].pc = "node_end"
    /\ LET r == run[e]
           c == _safe_callback(r.flow.callbacks, "on_node_end", raises)
           failed == r.error # NoError
           r1 == Emit(r, c, "on_node_end", r.current_node.name, r.output_message, r.error)
       IN  run' = [run EXCEPT ![e] =
                IF c.exc # NoError THEN [r1 EXCEPT !.pc = "flow_end", !.error = c.exc]
                ELSE IF failed THEN [r1 EXCEPT !.pc = "flow_end"]
                ELSE [r1 EXCEPT !.pc = "route"]]
    /\ UNCHANGED <<api, builders, last, beh>>

\* _execute_node: on_node_end, with the error (and the input message) when
\* the node raised, with the output otherwise
NodeEnd(e, raises) ==
    /\ run[e].pc = "node_end"
    /\ LET r == run[e]
           c == _safe_callback(r.flow.callbacks, "on_node_end", raises)
           failed == r.error # NoError
           r1 == Emit(r, c, "on_node_end", r.current_node.name,
                      IF failed THEN r.current_message ELSE r.output_message, r.error)
       IN  run' = [run EXCEPT ![e] =
                IF c.exc # NoError THEN [r1 EXCEPT !.pc = "flow_end", !.error = c.exc]
                ELSE IF failed THEN [r1 EXCEPT !.pc = "flow_end"]
                ELSE [r1 EXCEPT !.pc = "route"]]
    /\ UNCHANGED <<api, builders, last, beh>>

\* the loop that advances the node but keeps the message it started with
GetNextNode_stale_message(e) ==
    /\ run[e].pc = "route"
    /\ LET r == run[e]
           n == MF_get_next_node(r.flow, r.output_message, r.current_node)
       IN  run' = [run EXCEPT ![e] =
                IF ~n.ok THEN [r EXCEPT !.pc = "flow_end", !.error = n.err]
                ELSE IF n.val = None THEN [r EXCEPT !.pc = "flow_end"]
                ELSE [r EXCEPT !.pc = "node_start", !.current_node = n.val]]
    /\ UNCHANGED <<api, builders, last, beh>>

\* the loop that takes the new message but never leaves the current node
GetNextNode_same_node(e) ==
    /\ run[e].pc = "route"
    /\ LET r == run[e]
           n == MF_get_next_node(r.flow, r.output_message, r.current_node)
       IN  run' = [run EXCEPT ![e] =
                IF ~n.ok THEN [r EXCEPT !.pc = "flow_end", !.error = n.err]
                ELSE IF n.val = None THEN [r EXCEPT !.pc = "flow_end"]
                ELSE [r EXCEPT !.pc = "node_start",
                               !.current_message = r.output_message]]
    /\ UNCHANGED <<api, builders, last, beh>>

\* the loop that calls node.process directly after the first hop
GetNextNode_skips_node_start(e) ==
    /\ run[e].pc = "route"
    /\ LET r == run[e]
           n == MF_get_next_node(r.flow, r.output_message, r.current_node)
       IN  run' = [run EXCEPT ![e] =
                IF ~n.ok THEN [r EXCEPT !.pc = "flow_end", !.error = n.err]
                ELSE IF n.val = None THEN [r EXCEPT !.pc = "flow_end"]
                ELSE [r EXCEPT !.pc = "process",
                               !.current_node = n.val,
                               !.current_message = r.output_message]]
    /\ UNCHANGED <<api, builders, last, beh>>

\* the loop that keeps its cursor in the flow object instead of a local, where
\* every execution of that flow sees it
GetNextNode_cursor_in_flow(e) ==
    /\ run[e].pc = "route"
    /\ LET r == run[e]
           n == MF_get_next_node(r.flow, r.output_message, r.current_node)
       IN  run' = [f \in DOMAIN run |->
                IF f # e
                THEN IF n.ok /\ n.val # None
                     THEN [run[f] EXCEPT !.flow.start_node = n.val] ELSE run[f]
                ELSE IF ~n.ok THEN [r EXCEPT !.pc = "flow_end", !.error = n.err]
                ELSE IF n.val = None THEN [r EXCEPT !.pc = "flow_end"]
                ELSE [r EXCEPT !.pc = "node_start",
                               !.flow.start_node = n.val,
                               !.current_node = n.val,
                               !.current_message = r.output_message]]
    /\ UNCHANGED <<api, builders, last, beh>>

\* process: next_node = self._get_next_node(output_message, current_node)
GetNextNode(e) ==
    /\ run[e].pc = "route"
    /\ LET r == run[e]
           n == MF_get_next_node(r.flow, r.output_message, r.current_node)
       IN  run' = [run EXCEPT ![e] =
                IF ~n.ok THEN [r EXCEPT !.pc = "flow_end", !.error = n.err]
                ELSE IF n.val = None THEN [r EXCEPT !.pc = "flow_end"]
                ELSE [r EXCEPT !.pc = "node_start",
                               !.current_node = n.val,
                               !.current_message = r.output_message]]
    /\ UNCHANGED <<api, builders, last, beh>>

\* process without the except clause: no on_flow_end when the flow fails
FlowEnd_silent_on_error(e, raises) ==
    /\ run[e].pc = "flow_end"
    /\ LET r == run[e]
           c == _safe_callback(r.flow.callbacks, "on_flow_end", raises)
           r1 == Emit(r, c, "on_flow_end", r.flow.name, r.output_message, r.error)
       IN  run' = [run EXCEPT ![e] =
                IF r.error # NoError THEN Raised(r, r.error)
                ELSE IF c.exc # NoError THEN Raised(r1, c.exc)
                ELSE Returned(r1, r.output_message)]
    /\ UNCHANGED <<api, builders, last, beh>>

\* process whose except clause passes the last output to on_flow_end
FlowEnd_reports_output(e, raises) ==
    /\ run[e].pc = "flow_end"
    /\ LET r == run[e]
           c == _safe_callback(r.flow.callbacks, "on_flow_end", raises)
           failed == r.error # NoError
           r1 == Emit(r, c, "on_flow_end", r.flow.name, r.output_message, r.error)
       IN  run' = [run EXCEPT ![e] =
                IF failed
                THEN Raised(r1, IF c.exc # NoError THEN c.exc ELSE r.error)
                ELSE IF c.exc # NoError THEN [r1 EXCEPT !.error = c.exc]
                ELSE Returned(r1, r.output_message)]
    /\ UNCHANGED <<api, builders, last, beh>>

\* process: on_flow_end and return at termination; on_flow_end and re-raise
\* in the except clause
FlowEnd(e, raises) ==
    /\ run[e].pc = "flow_end"
    /\ LET r == run[e]
           c == _safe_callback(r.flow.callbacks, "on_flow_end", raises)
           failed == r.error # NoError
           r1 == Emit(r, c, "on_flow_end", r.flow.name,
                      IF failed THEN r.current_message ELSE r.output_message, r.error)
       IN  run' = [run EXCEPT ![e] =
                IF failed
                THEN Raised(r1, IF c.exc # NoError THEN c.exc ELSE r.error)
                ELSE IF c.exc # NoError THEN [r1 EXCEPT !.error = c.exc]
                ELSE Returned(r1, r.output_message)]
    /\ UNCHANGED <<api, builders, last, beh>>

\* The same flow is built twice from one builder, without and with a
\* handler, and run on the same input: first plain, then hooked.
InitExec ==
    /\ api = "msg"
    /\ builders = <<>>
    /\ last = NoCall
    /\ beh = <<>>
    /\ \E c \in MFEndCalls, T \in MsgTypes, h \in Handlers :
          run = [e \in Execs |->
                   NewRun(MF_end(IF e = "hooked" THEN with_callbacks(c[1], h) ELSE c[1],
                                 c[2], c[3]).val,
                          Msg(T, 0), TRUE)]

Stopped(r) == r.pc = "done" \/ (r.pc = "process" /\ r.hops >= MaxHops)
Turn(e) == e = "plain" \/ Stopped(run["plain"])

NextExec ==
    \E e \in Execs :
        /\ Turn(e)
        /\ \/ \E raises \in BOOLEAN : FlowStart(e, raises)
           \/ \E raises \in BOOLEAN : NodeStart(e, raises)
           \/ \E o \in Outcomes : Process(e, o)
           \/ \E raises \in BOOLEAN : NodeEnd(e, raises)
           \/ GetNextNode(e)
           \/ \E raises \in BOOLEAN : FlowEnd(e, raises)

SpecExec == InitExec /\ [][NextExec]_vars

(***************************************************************************)
(* Concurrent executions of one flow object.  c1 and c2 are tasks that     *)
(* call process on the same flow with different messages and interleave at *)
(* every await; a1 and a2 are the same two calls made one after the other. *)
(* The handler's hooks return normally here.                               *)
(***************************************************************************)
Concurrent == {"c1", "c2"}
Alone == {"a1", "a2"}

\* a1 starts when c1 and c2 have ended, a2 when a1 has
ConcTurn(e) ==
    CASE e \in Concurrent -> TRUE
      [] e = "a1" -> \A c \in Concurrent : Stopped(run[c])
      [] e = "a2" -> (\A c \in Concurrent : Stopped(run[c])) /\ Stopped(run["a1"])

InitConc ==
    /\ api = "msg"
    /\ builders = <<>>
    /\ last = NoCall
    /\ beh = <<>>
    /\ \E c \in MFEndCalls, T1 \in MsgTypes, T2 \in MsgTypes, h \in Handlers :
          LET flow == MF_end(with_callbacks(c[1], h), c[2], c[3]).val
          IN  run = [e \in Concurrent \cup Alone |->
                       NewRun(flow,
                              IF e \in {"c1", "a1"} THEN Msg(T1, 0)
                              ELSE Msg(T2, MaxHops + 1),
                              TRUE)]

NextConc ==
    \E e \in Concurrent \cup Alone :
        /\ ConcTurn(e)
        /\ \/ FlowStart(e, FALSE)
           \/ NodeStart(e, FALSE)
           \/ \E o \in Outcomes : Process(e, o)
           \/ NodeEnd(e, FALSE)
           \/ GetNextNode(e)
           \/ FlowEnd(e, FALSE)

SpecConc == InitConc /\ [][NextConc]_vars

\* asyncio.CancelledError derives from BaseException, not from Exception
CancelledError == [exc |-> "CancelledError", reason |-> "cancelled", node |-> "none", type |-> "none"]
\* isinstance(error, Exception): what an "except Exception" clause catches
IsException(error) == error.exc # "CancelledError"

\* The host cancels the task while process is suspended in
\* "output = await node.process(message)": CancelledError is raised at the
\* await and meets the except clauses of _execute_node and of process.
Cancel(e) ==
    /\ run[e].pc = "process"
    /\ run[e].hops < MaxHops
    /\ LET r == run[e]
           error == CancelledError
           r1 == [r EXCEPT !.hops = @ + 1,
                           !.invoked = Append(@, [node |-> r.current_node,
                                                  message |-> r.current_message])]
       IN  run' = [run EXCEPT ![e] =
                IF IsException(error)
                THEN [r1 EXCEPT !.pc = "node_end", !.error = error]
                ELSE Raised(r1, error)]
    /\ UNCHANGED <<api, builders, last, beh>>

NextCancel ==
    \/ NextExec
    \/ \E e \in Execs : Turn(e) /\ Cancel(e)

SpecCancel == InitExec /\ [][NextCancel]_vars

\* The executions without the recorded observations and without the bound
\* on hops: what remains is the state of process itself.  Every await
\* (hook or node) completes, so a step that is enabled is eventually taken.
InitLive ==
    /\ api = "msg"
    /\ builders = <<>>
    /\ last = NoCall
    /\ beh = <<>>
    /\ \E c \in MFEndCalls, T \in MsgTypes, h \in Handlers :
          run = [e \in Execs |->
                   NewRun(MF_end(IF e = "hooked" THEN with_callbacks(c[1], h) ELSE c[1],
                                 c[2], c[3]).val,
                          Msg(T, 0), FALSE)]

SpecLive == InitLive /\ [][NextExec]_vars /\ WF_vars(NextExec)

(***************************************************************************)
(* ObservableFlow._execute_with_interception, one action per await.        *)
(***************************************************************************)
NewObservedRun(of, message) ==
    [flow |-> of.core_flow, observers |-> of.observers, message |-> message,
     pc |-> "notify", stage |-> "input", history |-> TRUE,
     current_node |-> of.core_flow.start_node, current_message |-> message,
     output_message |-> NoMsg, error |-> NoError, hops |-> 0,
     tasks |-> <<>>, pending |-> {}, observed |-> <<>>,
     log |-> {}, failed_at |-> 0,
     trace |-> <<>>, stderr |-> <<>>, invoked |-> <<>>,
     result |-> [kind |-> "none", message |-> NoMsg, error |-> NoError]]

\* the message being observed at this stage
Observing(r) == IF r.stage = "input" THEN r.current_message ELSE r.output_message
AfterNotify(r) == IF r.stage = "input" THEN "process" ELSE "route"

\* _notify_observers: one task per matching observer, started together
ObsNotify(e) ==
    /\ run[e].pc = "notify"
    /\ LET r == run[e]
           observers == _get_observers_for(r, Observing(r).type)
       IN  run' = [run EXCEPT ![e] =
                IF observers = <<>>
                THEN [r EXCEPT !.pc = AfterNotify(r),
                               !.observed = Append(@, [message |-> Observing(r), by |-> <<>>])]
                ELSE [r EXCEPT !.pc = "gather", !.tasks = observers,
                               !.pending = DOMAIN observers]]
    /\ UNCHANGED <<api, builders, last, beh>>

\* one task of the gather: _safe_observe(observer, message)
ObsObserve(e, i, raises) ==
    /\ run[e].pc = "gather"
    /\ i \in run[e].pending
    /\ LET r == run[e]
           c == _safe_observe(r.tasks[i], raises)
       IN  run' = [run EXCEPT ![e] =
                IF c.exc # NoError
                THEN Raised([r EXCEPT !.pending = {}], c.exc)
                ELSE [r EXCEPT !.pending = @ \ {i},
                               !.log = IF c.logged THEN @ \cup {r.tasks[i]} ELSE @,
                               !.failed_at = IF c.logged /\ r.log = {}
                                             THEN r.hops ELSE @]]
    /\ UNCHANGED <<api, builders, last, beh>>

\* a gather that returns when the first task has completed
ObsGathered_first_completed(e) ==
    /\ run[e].pc = "gather"
    /\ run[e].pending # DOMAIN run[e].tasks
    /\ LET r == run[e]
       IN  run' = [run EXCEPT ![e] =
                [r EXCEPT !.pc = AfterNotify(r),
                          !.observed = Append(@, [message |-> Observing(r), by |-> r.tasks])]]
    /\ UNCHANGED <<api, builders, last, beh>>

\* await asyncio.gather(*tasks, return_exceptions=True) returns
ObsGathered(e) ==
    /\ run[e].pc = "gather"
    /\ run[e].pending = {}
    /\ LET r == run[e]
       IN  run' = [run EXCEPT ![e] =
                [r EXCEPT !.pc = AfterNotify(r),
                          !.observed = Append(@, [message |-> Observing(r), by |-> r.tasks])]]
    /\ UNCHANGED <<api, builders, last, beh>>

\* an execution loop that looks the route up without notifying the observers
\* of the node's output
ObsProcess_skips_notify(e, o) ==
    /\ run[e].pc = "process"
    /\ run[e].hops < MaxHops
    /\ LET r == run[e]
           call == <<r.current_node, r.current_message>>
       IN  /\ IF call \in DOMAIN beh THEN o = beh[call] ELSE TRUE
           /\ beh' = DictSet(beh, call, o)
           /\ run' = [run EXCEPT ![e] =
                LET r1 == [r EXCEPT !.hops = @ + 1,
                                    !.invoked = Append(@, [node |-> r.current_node,
                                                           message |-> r.current_message])]
                IN  IF o = "raise" THEN Raised(r1, NodeError(r.current_node))
                    ELSE [r1 EXCEPT !.pc = "route", !.stage = "output",
                                    !.output_message = Msg(o, r.current_message.id + 1)]]
    /\ UNCHANGED <<api, builders, last>>

\* output_message = await current_node.process(current_message)
ObsProcess(e, o) ==
    /\ run[e].pc = "process"
    /\ run[e].hops < MaxHops
    /\ LET r == run[e]
           call == <<r.current_node, r.current_message>>
       IN  /\ IF call \in DOMAIN beh THEN o = beh[call] ELSE TRUE
           /\ beh' = DictSet(beh, call, o)
           /\ run' = [run EXCEPT ![e] =
                LET r1 == [r EXCEPT !.hops = @ + 1,
                                    !.invoked = Append(@, [node |-> r.current_node,
                                                           message |-> r.current_message])]
                IN  IF o = "raise" THEN Raised(r1, NodeError(r.current_node))
                    ELSE [r1 EXCEPT !.pc = "notify", !.stage = "output",
                                    !.output_message = Msg(o, r.current_message.id + 1)]]
    /\ UNCHANGED <<api, builders, last>>

\* next_node = self.core_flow.routes.get(route_key)
ObsRoute(e) ==
    /\ run[e].pc = "route"
    /\ LET r == run[e]
           route_key == <<r.output_message.type, r.current_node.name>>
           next_node == IF route_key \in DOMAIN r.flow.routes
                        THEN r.flow.routes[route_key] ELSE None
       IN  run' = [run EXCEPT ![e] =
                IF next_node = None THEN Returned(r, r.output_message)
                ELSE [r EXCEPT !.pc = "process", !.current_node = next_node,
                               !.current_message = r.output_message]]
    /\ UNCHANGED <<api, builders, last, beh>>

InitObs ==
    /\ api = "msg"
    /\ builders = <<>>
    /\ last = NoCall
    /\ beh = <<>>
    /\ \E c \in MFEndCalls, T \in MsgTypes :
          \E of \in OFAfter(MF_end(c[1], c[2], c[3]).val, MaxObservers) :
              run = [e \in {"observed"} |-> NewObservedRun(of, Msg(T, 0))]

NextObs ==
    \E e \in {"observed"} :
        \/ ObsNotify(e)
        \/ \E i \in 1..MaxObservers, raises \in BOOLEAN : ObsObserve(e, i, raises)
        \/ ObsGathered(e)
        \/ \E o \in Outcomes : ObsProcess(e, o)
        \/ ObsRoute(e)

SpecObs == InitObs /\ [][NextObs]_vars

(***************************************************************************)
(* A core flow run by its own process ("plain") and by the execute of an   *)
(* ObservableFlow around it that has no observer ("observed"), on the same *)
(* message; the nodes behave the same in both (beh).  The core flow has no *)
(* callbacks, or a handler whose hooks return normally.                    *)
(***************************************************************************)
InitWrap ==
    /\ api = "msg"
    /\ builders = <<>>
    /\ last = NoCall
    /\ beh = <<>>
    /\ \E c \in MFEndCalls, T \in MsgTypes, h \in Handlers \cup {NoCallbacks} :
          LET core_flow == MF_end(with_callbacks(c[1], h), c[2], c[3]).val
          IN  run = [e \in {"plain", "observed"} |->
                       IF e = "plain" THEN NewRun(core_flow, Msg(T, 0), TRUE)
                       ELSE NewObservedRun(ObservableFlow(core_flow), Msg(T, 0))]

NextWrap ==
    \/ \E e \in {"plain"} :
          \/ FlowStart(e, FALSE)
          \/ NodeStart(e, FALSE)
          \/ \E o \in Outcomes : Process(e, o)
          \/ NodeEnd(e, FALSE)
          \/ GetNextNode(e)
          \/ FlowEnd(e, FALSE)
    \/ \E e \in {"observed"} :
          /\ Stopped(run["plain"])
          /\ \/ ObsNotify(e)
             \/ \E o \in Outcomes : ObsProcess(e, o)
             \/ ObsRoute(e)

SpecWrap == InitWrap /\ [][NextWrap]_vars

NextBuild ==
    \E i \in DOMAIN builders :
        \/ \E f \in Nodes, T \in MsgTypes, t \in Nodes : ImplRoute(i, f, T, t)
        \/ \E o \in ObserverTuples : ImplObserve(i, o)
        \/ \E f \in Nodes, T \in MsgTypes : ImplCompleteFlow(i, f, T)
        \/ \E f \in Nodes, T \in MsgTypes, t \in Nodes : MFRoute(i, f, T, t)
        \/ \E h \in Handlers : MFWithCallbacks(i, h)
        \/ \E f \in Nodes, T \in MsgTypes : MFEnd(i, f, T)

SpecBuild == InitBuild /\ [][NextBuild]_vars

(***************************************************************************)
(* Repeated end calls on one builder.  builders[1] is the builder; the     *)
(* flows that complete_flow / end returned are kept after it.              *)
(***************************************************************************)
\* the builders made from the nodes U by at most k successful route calls
RECURSIVE ImplBuildersOver(_, _)
ImplBuildersOver(U, k) ==
    IF k = 0 THEN {create_flow(FlowName, s) : s \in U}
    ELSE LET P == ImplBuildersOver(U, k - 1)
             calls == {c \in P \X U \X MsgTypes \X U :
                          route(c[1], c[2], c[3], c[4]).ok}
         IN  P \cup {route(c[1], c[2], c[3], c[4]).val : c \in calls}
ImplBuildersAfter(k) == ImplBuildersOver(Nodes, k)

\* complete_flow that refuses once the builder has produced a flow
ImplCompleteFlowKept_once(from_node, final_outcome) ==
    /\ api = "impl"
    /\ Len(builders) <= MaxFlows
    /\ LET r == IF Len(builders) > 1
                THEN Raise("ValueError", "MultipleTerminals", from_node.cls, final_outcome)
                ELSE complete_flow(builders[1], from_node, final_outcome)
       IN  /\ builders' = IF r.ok THEN Append(builders, r.val) ELSE builders
           /\ last' = Called("end", 1, <<from_node, final_outcome>>, r)
    /\ UNCHANGED <<api, run, beh>>

ImplCompleteFlowKept(from_node, final_outcome) ==
    /\ api = "impl"
    /\ Len(builders) <= MaxFlows
    /\ LET r == complete_flow(builders[1], from_node, final_outcome)
       IN  /\ builders' = IF r.ok THEN Append(builders, r.val) ELSE builders
           /\ last' = Called("end", 1, <<from_node, final_outcome>>, r)
    /\ UNCHANGED <<api, run, beh>>

MFEndKept(from_node, outcome) ==
    /\ api = "msg"
    /\ Len(builders) <= MaxFlows
    /\ LET r == MF_end(builders[1], from_node, outcome)
       IN  /\ builders' = IF r.ok THEN Append(builders, r.val) ELSE builders
           /\ last' = Called("end", 1, <<from_node, outcome>>, r)
    /\ UNCHANGED <<api, run, beh>>

InitEnds ==
    /\ api \in {"impl", "msg"}
    /\ \E b \in IF api = "impl" THEN ImplBuildersAfter(MaxRoutes)
                 ELSE MFBuildersAfter(MaxRoutes) : builders = <<b>>
    /\ last = NoCall
    /\ run = NoRuns
    /\ beh = <<>>

NextEnds ==
    \E f \in Nodes, T \in MsgTypes :
        \/ ImplCompleteFlowKept(f, T)
        \/ MFEndKept(f, T)

SpecEnds == InitEnds /\ [][NextEnds]_vars

(***************************************************************************)
(* flow_impl.py: _Flow.process, one action per statement of the dispatch   *)
(* loop.  hooks records the calls _Flow._safe_callback makes on the flow's *)
(* own callbacks (none when callbacks is None); the hooks return normally. *)
(***************************************************************************)
\* _Flow._safe_callback(method, name, ...): what hooks holds after it
ImplSafeCallback(r, flow, method, name) ==
    IF flow.callbacks = NoCallbacks THEN r.hooks
    ELSE Append(r.hooks, [to |-> flow.callbacks, hook |-> method, name |-> name])

ImplEndCalls ==
    {c \in ImplBuildersAfter(MaxRoutes) \X Nodes \X MsgTypes :
        complete_flow(c[1], c[2], c[3]).ok}

\* declared: every message emitted so far has a type that its node declares
ImplNewRun(flow, message) ==
    [flow |-> flow, message |-> message, pc |-> "process",
     current_node |-> flow.starting_node, current_message |-> message,
     output_message |-> NoMsg, hops |-> 0, invoked |-> <<>>, declared |-> TRUE,
     hooks |-> ImplSafeCallback([hooks |-> <<>>], flow, "on_flow_start", flow.name),
     result |-> [kind |-> "none", message |-> NoMsg, error |-> NoError]]

\* on_flow_end, then the exception leaves process / the message is returned
ImplRaised(r, error) ==
    Raised([r EXCEPT !.hooks = ImplSafeCallback(r, r.flow, "on_flow_end", r.flow.name)], error)
ImplReturned(r, message) ==
    Returned([r EXCEPT !.hooks = ImplSafeCallback(r, r.flow, "on_flow_end", r.flow.name)], message)
\* on_node_start and on_node_end around node.process
ImplNodeHooks(r, name) ==
    ImplSafeCallback([hooks |-> ImplSafeCallback(r, r.flow, "on_node_start", name)],
                     r.flow, "on_node_end", name)

\* the nodes of a flow: its starting node and the destinations of its routes
FlowNodes(flow) ==
    {flow.starting_node}
        \cup {flow.routes[i].dest : i \in {j \in DOMAIN flow.routes : flow.routes[j].dest # None}}

\* a built flow used as a node: _Flow is a Node, its process is annotated
\* with type variables, so its hints are not determinable
FlowNode(flow) == [cls |-> "_Flow", name |-> flow.name, flow |-> flow]
IsFlowNode(node) == node.cls = "_Flow"

\* output_message = await self._execute_node(current_node, current_message)
\* for a node that is not a flow; a node answers the same message the same
\* way whenever it is asked
ImplExecuteNode(e, o) ==
    /\ run[e].pc = "process"
    /\ run[e].hops < MaxHops
    /\ ~IsFlowNode(run[e].current_node)
    /\ LET call == <<run[e].current_node, run[e].current_message>>
       IN  /\ IF call \in DOMAIN beh THEN o = beh[call] ELSE TRUE
           /\ beh' = DictSet(beh, call, o)
    /\ LET r == run[e]
           r1 == [r EXCEPT !.hops = @ + 1,
                           !.hooks = ImplNodeHooks(r, r.current_node.name),
                           !.invoked = Append(@, [node |-> r.current_node,
                                                  message |-> r.current_message])]
       IN  run' = [run EXCEPT ![e] =
                IF o = "raise" THEN ImplRaised(r1, NodeError(r.current_node))
                ELSE [r1 EXCEPT !.pc = "route",
                                !.output_message = Msg(o, r.current_message.id + 1),
                                !.declared = @ /\ o \in _get_node_output_types(r.current_node)]]
    /\ UNCHANGED <<api, builders, last>>

\* next_node = self._get_next_node(output_message, current_node)
ImplGetNextNode(e) ==
    /\ run[e].pc = "route"
    /\ LET r == run[e]
           next_node == _get_next_node(r.flow, r.output_message, r.current_node)
       IN  run' = [run EXCEPT ![e] =
                IF ~next_node.ok THEN ImplRaised(r, next_node.err)
                ELSE IF next_node.val = None THEN ImplReturned(r, r.output_message)
                ELSE [r EXCEPT !.pc = "process", !.current_node = next_node.val,
                               !.current_message = r.output_message]]
    /\ UNCHANGED <<api, builders, last, beh>>

InitImpl ==
    /\ api = "impl"
    /\ builders = <<>>
    /\ last = NoCall
    /\ beh = <<>>
    /\ \E c \in ImplEndCalls, T \in MsgTypes :
          run = [e \in {"impl"} |->
                   ImplNewRun(complete_flow(c[1], c[2], c[3]).val, Msg(T, 0))]

NextImpl ==
    \E e \in {"impl"} :
        \/ \E o \in Outcomes : ImplExecuteNode(e, o)
        \/ ImplGetNextNode(e)

SpecImpl == InitImpl /\ [][NextImpl]_vars

(***************************************************************************)
(* A built flow F as a node of an outer flow G.  Frame "outer" runs        *)
(* G.process; when its current node is F, _execute_node awaits F.process   *)
(* in frame "inner".  Frame "direct" is F.process called by itself on the  *)
(* message G handed to F.                                                  *)
(***************************************************************************)
Frames == {"outer", "inner", "direct"}

\* a frame in which nothing runs yet
Idle == [ImplNewRun(create_flow(FlowName, nA), NoMsg) EXCEPT !.pc = "idle"]
Quiet(r) == r.pc \in {"idle", "done"}

\* the flows used as nodes
InnerFlows ==
    LET U == {nB, nC}
        ends == {c \in ImplBuildersOver(U, MaxRoutes) \X U \X MsgTypes :
                    complete_flow(c[1], c[2], c[3]).ok}
    IN  {complete_flow(c[1], c[2], c[3]).val : c \in ends}

\* the outer flows over a plain node and F that have F among their nodes
OuterFlows(F) ==
    LET U == {nA, FlowNode(F)}
        ends == {c \in ImplBuildersOver(U, MaxRoutes) \X U \X MsgTypes :
                    complete_flow(c[1], c[2], c[3]).ok}
    IN  {G \in {complete_flow(c[1], c[2], c[3]).val : c \in ends} :
            FlowNode(F) \in FlowNodes(G)}

\* a step of G's own loop, taken while no call of F is in progress
OuterStep(o) ==
    /\ Quiet(run["inner"]) /\ Quiet(run["direct"])
    /\ \/ ImplExecuteNode("outer", o)
       \/ ImplGetNextNode("outer")

\* _execute_node of G on the node F: await node.process(message) begins
CallFlow ==
    /\ run["outer"].pc = "process"
    /\ run["outer"].hops < MaxHops
    /\ IsFlowNode(run["outer"].current_node)
    /\ Quiet(run["inner"]) /\ Quiet(run["direct"])
    /\ LET r == run["outer"]
       IN  run' = [run EXCEPT
                !["outer"] = [r EXCEPT !.pc = "await", !.hops = @ + 1,
                                       !.hooks = ImplSafeCallback(r, r.flow, "on_node_start",
                                                                  r.current_node.name),
                                       !.invoked = Append(@, [node |-> r.current_node,
                                                              message |-> r.current_message])],
                !["inner"] = ImplNewRun(r.current_node.flow, r.current_message),
                !["direct"] = Idle]
    /\ UNCHANGED <<api, builders, last, beh>>

\* _execute_node that hands on the last message F worked on
ReturnFlow_last_input ==
    /\ run["outer"].pc = "await"
    /\ run["inner"].pc = "done"
    /\ LET r == run["outer"]
           f == run["inner"]
           r1 == [r EXCEPT !.hooks = ImplSafeCallback(r, r.flow, "on_node_end",
                                                     r.current_node.name)]
       IN  run' = [run EXCEPT
                !["outer"] = IF f.result.kind = "raise" THEN ImplRaised(r1, f.result.error)
                             ELSE [r1 EXCEPT !.pc = "route",
                                             !.output_message = f.current_message],
                !["direct"] = ImplNewRun(f.flow, f.message)]
    /\ UNCHANGED <<api, builders, last, beh>>

\* await node.process(message) ends: its value is _execute_node's output,
\* its exception leaves G.process.  F.process is then called directly on
\* the same message.
ReturnFlow ==
    /\ run["outer"].pc = "await"
    /\ run["inner"].pc = "done"
    /\ LET r == run["outer"]
           f == run["inner"]
           r1 == [r EXCEPT !.hooks = ImplSafeCallback(r, r.flow, "on_node_end",
                                                     r.current_node.name)]
       IN  run' = [run EXCEPT
                !["outer"] = IF f.result.kind = "raise" THEN ImplRaised(r1, f.result.error)
                             ELSE [r1 EXCEPT !.pc = "route",
                                             !.output_message = f.result.message],
                !["direct"] = ImplNewRun(f.flow, f.message)]
    /\ UNCHANGED <<api, builders, last, beh>>

InitNested ==
    /\ api = "impl"
    /\ builders = <<>>
    /\ last = NoCall
    /\ beh = <<>>
    /\ \E F \in InnerFlows, T \in MsgTypes :
          \E G \in OuterFlows(F) :
              run = [e \in Frames |->
                       IF e = "outer" THEN ImplNewRun(G, Msg(T, 0)) ELSE Idle]

\* the same, the outer flow built after observe(obs1): G has a handler and
\* F has none
ObservedOuterFlows(F) ==
    LET U == {nA, FlowNode(F)}
        G(c) == complete_flow(observe(c[1], <<"obs1">>), c[2], c[3])
        ends == {c \in ImplBuildersOver(U, MaxRoutes) \X U \X MsgTypes : G(c).ok}
    IN  {g \in {G(c).val : c \in ends} : FlowNode(F) \in FlowNodes(g)}

InitNestedObserved ==
    /\ api = "impl"
    /\ builders = <<>>
    /\ last = NoCall
    /\ beh = <<>>
    /\ \E F \in InnerFlows, T \in MsgTypes :
          \E G \in ObservedOuterFlows(F) :
              run = [e \in Frames |->
                       IF e = "outer" THEN ImplNewRun(G, Msg(T, 0)) ELSE Idle]

NextNested ==
    \/ \E o \in Outcomes : OuterStep(o)
    \/ CallFlow
    \/ \E e \in {"inner", "direct"}, o \in Outcomes : ImplExecuteNode(e, o)
    \/ \E e \in {"inner", "direct"} : ImplGetNextNode(e)
    \/ ReturnFlow

SpecNested == InitNested /\ [][NextNested]_vars
SpecNestedObserved == InitNestedObserved /\ [][NextNested]_vars

(***************************************************************************)
(* callbacks.py: CompositeHandler.  One call of one of its four hooks,     *)
(* one action per iteration of "for handler in self.handlers".             *)
(***************************************************************************)
HookMethods == {"on_flow_start", "on_flow_end", "on_node_start", "on_node_end"}
SubHandlers == {"h1", "h2", "h3"}

RECURSIVE TuplesUpTo(_, _)
TuplesUpTo(S, n) ==
    IF n = 0 THEN {<<>>}
    ELSE LET P == TuplesUpTo(S, n - 1)
         IN  P \cup {Append(t, x) : t \in {u \in P : Len(u) = n - 1}, x \in S}

\* CompositeHandler(*handlers)
CompositeHandler(handlers) == [kind |-> "CompositeHandler", handlers |-> handlers]

\* i: the handlers the loop has been through; calls: the sub-handler hooks
\* awaited, in order; failed: which of them raised; stderr: the lines written
NewHookCall(composite, method) ==
    [self |-> composite, method |-> method, pc |-> "loop", i |-> 0,
     calls |-> <<>>, failed |-> <<>>, stderr |-> <<>>,
     result |-> [kind |-> "none", message |-> NoMsg, error |-> NoError]]

\* the loop body without the try: the sub-handler's exception leaves the hook
CompositeIteration_unguarded(e, raises) ==
    /\ run[e].pc = "loop"
    /\ run[e].i < Len(run[e].self.handlers)
    /\ LET r == run[e]
           handler == r.self.handlers[r.i + 1]
           r1 == [r EXCEPT !.i = @ + 1,
                           !.calls = Append(@, handler),
                           !.failed = Append(@, raises)]
       IN  run' = [run EXCEPT ![e] =
                IF raises THEN Raised(r1, HookError(r.method)) ELSE r1]
    /\ UNCHANGED <<api, builders, last, beh>>

\* try: await handler.<method>(...)  except Exception: sys.stderr.write(...)
CompositeIteration(e, raises) ==
    /\ run[e].pc = "loop"
    /\ run[e].i < Len(run[e].self.handlers)
    /\ LET r == run[e]
           handler == r.self.handlers[r.i + 1]
           error == HookError(r.method)
           r1 == [r EXCEPT !.i = @ + 1,
                           !.calls = Append(@, handler),
                           !.failed = Append(@, raises)]
       IN  run' = [run EXCEPT ![e] =
                IF raises /\ IsException(error)
                THEN [r1 EXCEPT !.stderr = Append(@, [handler |-> handler, method |-> r.method])]
                ELSE IF raises THEN Raised(r1, error)
                ELSE r1]
    /\ UNCHANGED <<api, builders, last, beh>>

\* the loop is exhausted: the hook returns None
CompositeReturn(e) ==
    /\ run[e].pc = "loop"
    /\ run[e].i = Len(run[e].self.handlers)
    /\ run' = [run EXCEPT ![e] = Returned(run[e], NoMsg)]
    /\ UNCHANGED <<api, builders, last, beh>>

InitComposite ==
    /\ api = "msg"
    /\ builders = <<>>
    /\ last = NoCall
    /\ beh = <<>>
    /\ \E handlers \in TuplesUpTo(SubHandlers, MaxHandlers), method \in HookMethods :
          run = [e \in {"hook"} |-> NewHookCall(CompositeHandler(handlers), method)]

NextComposite ==
    \E e \in {"hook"} :
        \/ \E raises \in BOOLEAN : CompositeIteration(e, raises)
        \/ CompositeReturn(e)

SpecComposite == InitComposite /\ [][NextComposite]_vars

(***************************************************************************)
(* One builder chain: every call is made on the builder the call before    *)
(* returned (builders[k + 1] is what the k-th call returned), with observe *)
(* / with_callbacks calls among the route calls.  end builds the flow; a   *)
(* MessageFlow is then run, and run["built"].dispatched collects the       *)
(* handler objects whose hooks the run called.  The hooks return normally *)
(* here.                                                                   *)
(***************************************************************************)
HandlerArgs == Handlers \cup {[kind |-> "Handler", id |-> "H2"]}
ObserverArgs == ObserverTuples \cup {<<"obs2">>}
Unbuilt == [NewRun(None, NoMsg, TRUE) EXCEPT !.pc = "unbuilt"]
Tip == builders[Len(builders)]
Chaining == run["built"].pc = "unbuilt" /\ Len(builders) <= MaxBuilders

ChainCall(op, args, r) ==
    /\ builders' = IF r.ok THEN Append(builders, r.val) ELSE builders
    /\ last' = Called(op, Len(builders), args, r)
    /\ UNCHANGED <<api, run, beh>>

ChainObserve(observers) ==
    /\ api = "impl" /\ Chaining
    /\ ChainCall("observe", <<observers>>, Ok(observe(Tip, observers)))

ChainWithCallbacks(handler) ==
    /\ api = "msg" /\ Chaining
    /\ ChainCall("observe", <<handler>>, Ok(with_callbacks(Tip, handler)))

ChainRoute(from_node, outcome, to_node) ==
    /\ Chaining
    /\ ChainCall("route", <<from_node, outcome, to_node>>,
                 IF api = "impl" THEN route(Tip, from_node, outcome, to_node)
                 ELSE MF_route(Tip, from_node, outcome, to_node))

ChainCompleteFlow(from_node, final_outcome) ==
    /\ api = "impl" /\ run["built"].pc = "unbuilt"
    /\ last' = Called("end", Len(builders), <<from_node, final_outcome>>,
                      complete_flow(Tip, from_node, final_outcome))
    /\ UNCHANGED <<api, builders, run, beh>>

\* end, and process(message) on the flow it returned
ChainEnd(from_node, outcome, message) ==
    /\ api = "msg" /\ run["built"].pc = "unbuilt"
    /\ LET r == MF_end(Tip, from_node, outcome)
       IN  /\ last' = Called("end", Len(builders), <<from_node, outcome>>, r)
           /\ run' = IF r.ok THEN [run EXCEPT !["built"] = NewRun(r.val, message, TRUE)]
                      ELSE run
    /\ UNCHANGED <<api, builders, beh>>

InitChain ==
    /\ api \in {"impl", "msg"}
    /\ \E s \in ExecNodes :
          builders = IF api = "impl" THEN <<create_flow(FlowName, s)>>
                     ELSE <<message_flow(FlowName, s)>>
    /\ last = NoCall
    /\ beh = <<>>
    /\ run = [e \in {"built"} |-> Unbuilt]

NextChain ==
    \/ \E o \in ObserverArgs : ChainObserve(o)
    \/ \E h \in HandlerArgs : ChainWithCallbacks(h)
    \/ \E f \in ExecNodes, T \in MsgTypes, t \in ExecNodes : ChainRoute(f, T, t)
    \/ \E f \in ExecNodes, T \in MsgTypes : ChainCompleteFlow(f, T)
    \/ \E f \in ExecNodes, T \in MsgTypes, M \in MsgTypes : ChainEnd(f, T, Msg(M, 0))
    \/ \E e \in {"built"} :
          \/ FlowStart(e, FALSE)
          \/ NodeStart(e, FALSE)
          \/ \E o \in Outcomes : Process(e, o)
          \/ NodeEnd(e, FALSE)
          \/ GetNextNode(e)
          \/ FlowEnd(e, FALSE)

SpecChain == InitChain /\ [][NextChain]_vars

(***************************************************************************)
(* message.py and _internal/message_impl.py: construction and comparison   *)
(* of messages.  CmdT is a concrete Command class and EvtT a concrete      *)
(* Event class, without payload fields.  run["made"].messages holds the    *)
(* instances that were constructed, in the order of construction; the      *)
(* position of an instance is its identity.  api = "msg": the dataclasses  *)
(* of message.py; api = "impl": the models of _internal/message_impl.py.   *)
(***************************************************************************)
MessageClasses == MsgTypes \cup {"Command", "Event"}
IsEvent(cls) == cls \in {"Event", "EvtT"}
IsAbstract(cls) == cls \in {"Command", "Event"}

\* a UUID: one the caller has (given), or the n-th one uuid4 drew
Uuid(src, n) == [src |-> src, n |-> n]
GivenUuid == Uuid("given", 1)
\* a datetime: the n-th instant of the clock
Instant(n) == [instant |-> n]
\* what datetime.now(UTC) can read at a call
ClockReads == {Instant(0), Instant(1)}
\* an argument that is left out of the call
Missing == [cls |-> "Missing", name |-> "missing"]

\* uuid4 that draws the same value at every call
uuid4_repeats(drawn) == Uuid("uuid4", 1)

\* uuid.uuid4(): a value no earlier call drew and no caller could have
uuid4(drawn) == Uuid("uuid4", drawn + 1)

TypeError(cls) == [exc |-> "TypeError", reason |-> "abstract", node |-> "none", type |-> cls]
ValueError(cls) ==
    [exc |-> "ValueError", reason |-> "Events must have a triggered_by_id",
     node |-> "none", type |-> cls]

\* AbstractMessageMeta.__call__ / the type(self) is Event, type(self) is
\* Command tests of the validators
AbstractMessageMeta(cls) == IF IsAbstract(cls) THEN Raise("TypeError", "abstract", "none", cls)
                            ELSE Ok(cls)

\* Event construction without the test of triggered_by_id
_validate_event_unchecked(self) == Ok(self)

\* Event.__post_init__ / Event._validate_event: the test of triggered_by_id
_validate_event(self) ==
    IF self.triggered_by_id = None
    THEN Raise("ValueError", "Events must have a triggered_by_id", "none", self.cls)
    ELSE Ok(self)

\* cls(id=, triggered_by_id=, run_id=): the fields take the arguments, or
\* their defaults (a fresh uuid4, None, now for the timestamp); then the
\* validation of the class
NewMessageObject(cls, id, triggered_by_id, run_id, drawn, now) ==
    LET self == [cls |-> cls,
                 id |-> IF id = Missing THEN uuid4(drawn) ELSE id,
                 triggered_by_id |-> IF triggered_by_id = Missing THEN None ELSE triggered_by_id,
                 timestamp |-> now,
                 run_id |-> run_id]
    IN  IF ~AbstractMessageMeta(cls).ok THEN AbstractMessageMeta(cls)
        ELSE IF IsEvent(cls) THEN _validate_event(self)
        ELSE Ok(self)

\* the generated __eq__: same class, and equal field by field
MessageEq(self, other) ==
    /\ self.cls = other.cls
    /\ self.id = other.id
    /\ self.triggered_by_id = other.triggered_by_id
    /\ self.timestamp = other.timestamp
    /\ self.run_id = other.run_id

Made == run["made"]

\* one constructor call.  now: what the clock reads at the call.
\* default_id[i]: whether the id of messages[i] is the default.
NewMessage(cls, id, triggered_by_id, run_id, now) ==
    /\ Len(Made.messages) < MaxMessages
    /\ id = Missing => Made.drawn <= MaxMessages
    /\ LET r == NewMessageObject(cls, id, triggered_by_id, run_id, Made.drawn, now)
           draws == id = Missing /\ AbstractMessageMeta(cls).ok
       IN  /\ run' = [run EXCEPT !["made"] =
                         [messages |-> IF r.ok THEN Append(Made.messages, r.val)
                                       ELSE Made.messages,
                          default_id |-> IF r.ok THEN Append(Made.default_id, id = Missing)
                                         ELSE Made.default_id,
                          drawn |-> IF draws THEN Made.drawn + 1 ELSE Made.drawn]]
           /\ last' = Called("Message", 0, <<cls, id, triggered_by_id, run_id>>, r)
    /\ UNCHANGED <<api, builders, beh>>

InitMessages ==
    /\ api \in {"impl", "msg"}
    /\ builders = <<>>
    /\ last = NoCall
    /\ beh = <<>>
    /\ run = [e \in {"made"} |-> [messages |-> <<>>, default_id |-> <<>>, drawn |-> 0]]

NextMessages ==
    \E cls \in MessageClasses, id \in {GivenUuid, Missing},
       triggered_by_id \in {GivenUuid, Missing, None}, now \in ClockReads :
        NewMessage(cls, id, triggered_by_id, GivenUuid, now)

SpecMessages == InitMessages /\ [][NextMessages]_vars

(***************************************************************************)
(* node.py and message_node.py: construction of nodes.  A name is the      *)
(* tuple of its characters here, so that strip() can be computed.          *)
(* api = "impl": the Node of node.py, which flow_impl.py takes; api =      *)
(* "msg": the Node of message_node.py, which message_flow.py takes.        *)
(* run["made"].nodes holds the nodes that were constructed; builders holds *)
(* the tip of one builder chain over them.                                 *)
(***************************************************************************)
Whitespace == {" "}
NameArgs == {<<>>, <<" ">>, <<" ", " ">>, <<"a">>, <<" ", "a">>, <<"a", " ">>, <<"b">>}
NodeClasses == {"StartNode", "TransformNode"}

\* str.strip()
RECURSIVE lstrip(_)
lstrip(s) == IF s # <<>> /\ Head(s) \in Whitespace THEN lstrip(Tail(s)) ELSE s
RECURSIVE rstrip(_)
rstrip(s) == IF s # <<>> /\ s[Len(s)] \in Whitespace THEN rstrip(SubSeq(s, 1, Len(s) - 1)) ELSE s
strip(s) == rstrip(lstrip(s))

InvalidNode(name) == [exc |-> "ValueError", reason |-> "invalid name", node |-> name, type |-> "none"]

\* node.py: name: Annotated[str, StringConstraints(min_length=1,
\* strip_whitespace=True)]: the value is stripped, then its length is tested
StringConstraints(name) ==
    LET v == strip(name)
    IN  IF Len(v) < 1 THEN [ok |-> FALSE, err |-> InvalidNode(name)] ELSE Ok(v)

\* _validate_node with the test of the empty name only
_validate_node_empty_only(self) ==
    IF self.name = <<>> THEN [ok |-> FALSE, err |-> InvalidNode(self.name)] ELSE Ok(self)

\* message_node.py: Node._validate_node
_validate_node(self) ==
    IF self.name = <<>> \/ strip(self.name) = <<>>
    THEN [ok |-> FALSE, err |-> InvalidNode(self.name)]
    ELSE Ok(self)

\* cls(name=name)
NewNodeObject(cls, name) ==
    IF api = "impl"
    THEN LET v == StringConstraints(name)
         IN  IF v.ok THEN Ok([cls |-> cls, name |-> v.val]) ELSE v
    ELSE _validate_node([cls |-> cls, name |-> name])

NewNode(cls, name) ==
    /\ Len(Made.nodes) < MaxNodes
    /\ LET r == NewNodeObject(cls, name)
       IN  /\ run' = [run EXCEPT !["made"].nodes = IF r.ok THEN Append(@, r.val) ELSE @]
           /\ last' = Called("Node", 0, <<cls, name>>, r)
    /\ UNCHANGED <<api, builders, beh>>

\* create_flow / message_flow on a node that was constructed
NodeCreateFlow(i) ==
    /\ builders = <<>>
    /\ LET r == Ok(IF api = "impl" THEN create_flow(FlowName, Made.nodes[i])
                   ELSE message_flow(FlowName, Made.nodes[i]))
       IN  /\ builders' = <<r.val>>
           /\ last' = Called("create_flow", 0, <<Made.nodes[i]>>, r)
    /\ UNCHANGED <<api, run, beh>>

\* route on the tip of the chain, between nodes that were constructed
NodeRoute(f, outcome, t) ==
    /\ builders # <<>>
    /\ (IF api = "impl" THEN Len(builders[1].routes)
        ELSE Cardinality(DOMAIN builders[1].routes)) < MaxRoutes
    /\ LET r == IF api = "impl" THEN route(builders[1], Made.nodes[f], outcome, Made.nodes[t])
                ELSE MF_route(builders[1], Made.nodes[f], outcome, Made.nodes[t])
       IN  /\ builders' = IF r.ok THEN <<r.val>> ELSE builders
           /\ last' = Called("route", 1, <<Made.nodes[f], outcome, Made.nodes[t]>>, r)
    /\ UNCHANGED <<api, run, beh>>

InitNodes ==
    /\ api \in {"impl", "msg"}
    /\ builders = <<>>
    /\ last = NoCall
    /\ beh = <<>>
    /\ run = [e \in {"made"} |-> [nodes |-> <<>>]]

NextNodes ==
    \/ \E cls \in NodeClasses, name \in NameArgs : NewNode(cls, name)
    \/ \E i \in DOMAIN Made.nodes : NodeCreateFlow(i)
    \/ \E f \in DOMAIN Made.nodes, T \in MsgTypes, t \in DOMAIN Made.nodes : NodeRoute(f, T, t)

SpecNodes == InitNodes /\ [][NextNodes]_vars

(***************************************************************************)
(* clearflow/__init__.py: the string-outcome API.  flow(name, start) makes *)
(* a _FlowBuilder, route returns a new builder with one more entry in the  *)
(* routing dict keyed (node name, outcome), build returns a _Flow, and      *)
(* calling the _Flow runs exec.  The chained calls are followed on one     *)
(* builder, builders[1], up to the call of the built flow; the nodes are   *)
(* plain nodes, a state is the number of nodes it went through.            *)
(***************************************************************************)
MaxLegacyRoutes == 2

LegacyNodes == {[cls |-> "DataValidator", name |-> "validator"],
                [cls |-> "DataProcessor", name |-> "processor"]}
\* an object whose name is empty
Nameless == [cls |-> "object", name |-> ""]
LegacyOutcomes == {"valid", "processed"}
LegacyNames == {<<"F">>, <<" ">>, <<>>}

NodeResult(state, outcome) == [state |-> state, outcome |-> outcome]
NoNodeResult == [state |-> 0, outcome |-> "none"]

\* flow(name, start)
Legacy_flow(name, start) ==
    IF name = <<>> \/ strip(name) = <<>>
    THEN Raise("ValueError", "Flow name must be a non-empty string", "none", "none")
    ELSE Ok([_name |-> name, _start |-> start, _routes |-> <<>>])

\* _FlowBuilder.route
Legacy_route(self, from_node, outcome, to_node) ==
    IF from_node.name = ""
    THEN Raise("ValueError", "from_node must have a name", "none", "none")
    ELSE LET route_key == <<from_node.name, outcome>>
             new_routes == DictSet(self._routes, route_key, to_node)
         IN  Ok([self EXCEPT !._routes = new_routes])

\* the (from_node, outcome) pairs routed to None
none_routes(self) == {k \in DOMAIN self._routes : self._routes[k] = None}

\* _FlowBuilder.build
Legacy_build(self) ==
    IF Cardinality(none_routes(self)) > 1
    THEN Raise("ValueError", "multiple termination points", "none", "none")
    ELSE Ok([name |-> self._name, start_node |-> self._start, routes |-> self._routes])

LegacyIdle == [pc |-> "idle"]
\* _Flow.exec entry
LegacyNewRun(f, state) ==
    [flow |-> f, pc |-> "call", current_node |-> f.start_node, current_state |-> state,
     result |-> NoNodeResult, hops |-> 0, invoked |-> <<>>,
     returned |-> [kind |-> "none", value |-> NoNodeResult, error |-> NoError]]
LegacyReturned(r, result) ==
    [r EXCEPT !.pc = "done",
              !.returned = [kind |-> "return", value |-> result, error |-> NoError]]
LegacyRaised(r, error) ==
    [r EXCEPT !.pc = "done",
              !.returned = [kind |-> "raise", value |-> NoNodeResult, error |-> error]]

LegacyRoute(from_node, outcome, to_node) ==
    /\ api = "legacy"
    /\ run["legacy"].pc = "idle"
    /\ LET r == Legacy_route(builders[1], from_node, outcome, to_node)
       IN  /\ r.ok => Cardinality(DOMAIN r.val._routes) <= MaxLegacyRoutes
           /\ builders' = IF r.ok THEN <<r.val>> ELSE builders
           /\ last' = Called("route", 1, <<from_node, outcome, to_node>>, r)
    /\ UNCHANGED <<api, run, beh>>

LegacyBuild ==
    /\ api = "legacy"
    /\ run["legacy"].pc = "idle"
    /\ last' = Called("build", 1, <<>>, Legacy_build(builders[1]))
    /\ UNCHANGED <<api, builders, run, beh>>

\* await built_flow(state): Node.__call__ enters _Flow.exec
LegacyCall(e) ==
    /\ api = "legacy"
    /\ last.op = "build"
    /\ last.err = NoError
    /\ run[e].pc = "idle"
    /\ run' = [run EXCEPT ![e] = LegacyNewRun(last.res, 0)]
    /\ UNCHANGED <<api, builders, last, beh>>

\* result = await current_node(current_state)
LegacyCallNode(e, o) ==
    /\ run[e].pc = "call"
    /\ run[e].hops < MaxHops
    /\ LET r == run[e]
           result == NodeResult(r.current_state + 1, o)
           r1 == [r EXCEPT !.hops = @ + 1]
       IN  run' = [run EXCEPT ![e] =
                IF o = "raise"
                THEN LegacyRaised([r1 EXCEPT !.invoked =
                                       Append(@, [node |-> r.current_node,
                                                  state |-> r.current_state,
                                                  result |-> NoNodeResult])],
                                  NodeError(r.current_node))
                ELSE [r1 EXCEPT !.pc = "lookup", !.result = result,
                                !.invoked = Append(@, [node |-> r.current_node,
                                                       state |-> r.current_state,
                                                       result |-> result])]]
    /\ UNCHANGED <<api, builders, last, beh>>

\* a lookup that raises when the key is missing
LegacyLookup_raises(e) ==
    /\ run[e].pc = "lookup"
    /\ LET r == run[e]
           key == <<r.current_node.name, r.result.outcome>>
       IN  run' = [run EXCEPT ![e] =
                IF key \notin DOMAIN r.flow.routes
                THEN LegacyRaised(r, [exc |-> "ValueError", reason |-> "No route defined",
                                      node |-> r.current_node.name, type |-> r.result.outcome])
                ELSE LET next_node == r.flow.routes[key]
                     IN  IF next_node = None THEN LegacyReturned(r, r.result)
                         ELSE [r EXCEPT !.pc = "call", !.current_node = next_node,
                                        !.current_state = r.result.state]]
    /\ UNCHANGED <<api, builders, last, beh>>

\* key = (current_node.name, result.outcome) and the rest of the loop body
LegacyLookup(e) ==
    /\ run[e].pc = "lookup"
    /\ LET r == run[e]
           key == <<r.current_node.name, r.result.outcome>>
       IN  run' = [run EXCEPT ![e] =
                IF key \notin DOMAIN r.flow.routes
                THEN LegacyReturned(r, r.result)
                ELSE LET next_node == r.flow.routes[key]
                     IN  IF next_node = None THEN LegacyReturned(r, r.result)
                         ELSE [r EXCEPT !.pc = "call", !.current_node = next_node,
                                        !.current_state = r.result.state]]
    /\ UNCHANGED <<api, builders, last, beh>>

InitLegacy ==
    /\ api = "legacy"
    /\ \E name \in LegacyNames, start \in LegacyNodes :
          /\ Legacy_flow(name, start).ok
          /\ builders = <<Legacy_flow(name, start).val>>
    /\ last = NoCall
    /\ beh = <<>>
    /\ run = [e \in {"legacy"} |-> LegacyIdle]

NextLegacy ==
    \/ \E f \in LegacyNodes \cup {Nameless}, o \in LegacyOutcomes,
          t \in LegacyNodes \cup {None} : LegacyRoute(f, o, t)
    \/ LegacyBuild
    \/ \E e \in {"legacy"} :
          \/ LegacyCall(e)
          \/ \E o \in LegacyOutcomes \cup {"raise"} : LegacyCallNode(e, o)
          \/ LegacyLookup(e)

SpecLegacy == InitLegacy /\ [][NextLegacy]_vars

(***************************************************************************)
(* Properties of the builders (SpecBuild).                                 *)
(***************************************************************************)
\* the number of entries of a route table whose destination is None
TerminalCount(routes) ==
    IF api = "impl"
    THEN Cardinality({i \in DOMAIN routes : routes[i].dest = None})
    ELSE Cardinality({k \in DOMAIN routes : routes[k] = None})

Succeeded(op) == last.op = op /\ last.err = NoError

\* C8: the flow returned by complete_flow / end has exactly one route
\* entry whose destination is the terminal marker.
C8_ExactlyOneTerminal ==
    Succeeded("end") => TerminalCount(last.res.routes) = 1

C8_Witness ==
    /\ api = "impl"
    /\ Succeeded("end") /\ last.on = 2
    /\ Len(last.res.routes) = 2
    /\ last.res.routes[1].dest # None

\* the route tables that exist: of the live builders and of the object the
\* last call returned
RouteTables ==
    {builders[i].routes : i \in DOMAIN builders}
        \cup (IF last.res # NoResult THEN {last.res.routes} ELSE {})

\* the destination found by scanning a flow_impl route table backwards
LastMatch(routes, route_key) ==
    LET hits == {i \in DOMAIN routes : routes[i].key = route_key}
    IN  routes[CHOOSE i \in hits : \A j \in hits : i >= j].dest

\* C9: no route table holds two entries with the same (source node,
\* outcome type) key, so the first-match scan and the last-match scan of
\* any key agree; in the mapping-based builder a successful route or end
\* adds a key and never replaces one.
C9_UniqueRouteKeys ==
    /\ api = "impl" =>
          \A routes \in RouteTables :
              /\ \A i, j \in DOMAIN routes : routes[i].key = routes[j].key => i = j
              /\ \A i \in DOMAIN routes :
                    _get_next_node([routes |-> routes], Msg(routes[i].key[2], 0),
                                   routes[i].key[1])
                        = Ok(LastMatch(routes, routes[i].key))
    /\ (api = "msg" /\ (Succeeded("route") \/ Succeeded("end"))) =>
              Cardinality(DOMAIN last.res.routes)
                  = Cardinality(DOMAIN builders[last.on].routes) + 1

C9_Witness ==
    /\ api = "impl"
    /\ Succeeded("route")
    /\ Len(last.res.routes) = 2
    /\ last.res.routes[1].key[2] = last.res.routes[2].key[2]
    /\ last.res.routes[1].key[1].name = last.res.routes[2].key[1].name

\* C10: no call of route, observe or end, successful or not, changes a
\* builder that exists: every builder keeps its name, starting node,
\* routes, reachable nodes and callbacks.
C10_BuilderUnchanged ==
    [][\A i \in DOMAIN builders : i \in DOMAIN builders' /\ builders'[i] = builders[i]]_vars

C10_Witness ==
    /\ last.op = "route" /\ last.on = 2
    /\ last.err.reason = "Route already defined"
    /\ Len(builders) = 2
    /\ builders[2].reachable_nodes = NodeNames

\* the starting node of a builder of either kind
StartOf(b) == IF api = "impl" THEN b.starting_node ELSE b.start_node

\* the names a lineage has made reachable: the starting node's name and the
\* names of the destinations of the routes added so far
LineageNames(b) ==
    {StartOf(b).name}
        \cup (IF api = "impl" THEN {b.routes[i].dest.name : i \in DOMAIN b.routes}
              ELSE {b.routes[k].name : k \in DOMAIN b.routes})

RouteOrEnd == last.op \in {"route", "end"}

\* C11: route and end are rejected with the not-reachable error naming
\* from_node, and return nothing, exactly when from_node.name is neither the
\* starting node's name nor the name of a destination added earlier in the
\* lineage; a successful route adds to_node.name to reachable_nodes.
C11_ReachabilityCheck ==
    RouteOrEnd =>
        LET b == builders[last.on]
            from_node == last.args[1]
        IN  /\ from_node.name \notin LineageNames(b) =>
                  /\ last.err.exc = "ValueError"
                  /\ last.err.reason = "not reachable from start"
                  /\ last.err.node = from_node.name
                  /\ last.res = NoResult
            /\ from_node.name \in LineageNames(b) =>
                  last.err.reason # "not reachable from start"
            /\ Succeeded("route") =>
                  last.res.reachable_nodes = b.reachable_nodes \cup {last.args[3].name}

C11_Witness ==
    /\ last.op = "route" /\ last.on = 2
    /\ builders[2].routes # <<>>
    /\ last.args[1].name \notin LineageNames(builders[2])
    /\ last.err.node = last.args[1].name
    /\ last.res = NoResult

\* the key of the last call is already in the receiver's route table
KeyTaken(b, args) ==
    IF api = "impl" THEN \E i \in DOMAIN b.routes : b.routes[i].key = <<args[1], args[2]>>
    ELSE <<args[2], args[1].name>> \in DOMAIN b.routes

\* C12: a route or end call whose (source node, outcome type) key already
\* has a route in the receiver fails with the duplicate-route error,
\* returns no builder or flow, and leaves the live builders as they were.
C12_DuplicateRouteRejected ==
    [][(last'.op \in {"route", "end"} /\ KeyTaken(builders[last'.on], last'.args)) =>
          /\ last'.err.exc = "ValueError"
          /\ last'.err.reason = "Route already defined"
          /\ last'.err.type = last'.args[2]
          /\ last'.res = NoResult
          /\ builders' = builders]_vars

C12_Witness ==
    /\ api = "msg"
    /\ last.op = "end" /\ last.on = 2
    /\ last.err.reason = "Route already defined"
    /\ KeyTaken(builders[2], last.args)

\* the route key a call's arguments make, and the terminal key of a flow
CallKey(args) == IF api = "impl" THEN <<args[1], args[2]>> ELSE <<args[2], args[1].name>>
TerminalKey(flow) ==
    IF api = "impl"
    THEN flow.routes[CHOOSE i \in DOMAIN flow.routes : flow.routes[i].dest = None].key
    ELSE CHOOSE k \in DOMAIN flow.routes : flow.routes[k] = None

\* C13 as stated: once the builder has produced a flow, an end call with
\* another (source node, outcome type) is rejected and produces nothing.
C13_SecondEndRejected ==
    [][(/\ last'.op = "end"
        /\ Len(builders) >= 2
        /\ \A j \in 2..Len(builders) : TerminalKey(builders[j]) # CallKey(last'.args)) =>
          /\ last'.err # NoError
          /\ builders' = builders]_vars

\* C13, amended: whether an end call succeeds depends on the builder
\* alone, not on the flows made from it before: it succeeds exactly when
\* from_node's name is reachable and the key has no route, and then returns
\* a further flow whose single terminal entry has the key of this call.
C13_EndIgnoresEarlierEnds ==
    [][last'.op = "end" =>
          LET b == builders[1]
              args == last'.args
          IN  IF args[1].name \in b.reachable_nodes /\ ~KeyTaken(b, args)
              THEN /\ last'.err = NoError
                   /\ TerminalCount(last'.res.routes) = 1
                   /\ TerminalKey(last'.res) = CallKey(args)
                   /\ builders' = Append(builders, last'.res)
              ELSE /\ last'.err # NoError
                   /\ builders' = builders]_vars

C13_Witness ==
    /\ Len(builders) = 3
    /\ Succeeded("end")
    /\ last.res = builders[3]
    /\ TerminalKey(builders[2]) # TerminalKey(builders[3])

\* the annotations rule the type out: the source's declared outputs are
\* known and T is not one of them; the destination's declared inputs are
\* known and T is a subtype of none of them
OutputMismatch(from_node, T) ==
    DeclaredOut(from_node.cls) # {} /\ T \notin DeclaredOut(from_node.cls)
InputMismatch(to_node, T) ==
    /\ DeclaredIn(to_node.cls) # {}
    /\ \A u \in DeclaredIn(to_node.cls) : ~issubclass(T, u)

\* C15: a route call of the type-validating builder whose type is ruled
\* out by the source's declared outputs or the destination's declared
\* inputs fails and returns no builder; with a reachable source and a free
\* key the error is the TypeError of the failed check, and a call that no
\* known annotation rules out is accepted.
C15_RouteTypeMismatch ==
    (api = "impl" /\ last.op = "route") =>
        LET b == builders[last.on]
            from_node == last.args[1]
            T == last.args[2]
            to_node == last.args[3]
            out_bad == OutputMismatch(from_node, T)
            in_bad == InputMismatch(to_node, T)
        IN  /\ (out_bad \/ in_bad) => (last.err # NoError /\ last.res = NoResult)
            /\ (from_node.name \in b.reachable_nodes /\ ~KeyTaken(b, last.args)) =>
                  /\ out_bad =>
                        /\ last.err.exc = "TypeError" /\ last.err.reason = "cannot output"
                        /\ last.err.node = from_node.cls /\ last.err.type = T
                  /\ (~out_bad /\ in_bad) =>
                        /\ last.err.exc = "TypeError" /\ last.err.reason = "cannot accept"
                        /\ last.err.node = to_node.cls /\ last.err.type = T
                  /\ (~out_bad /\ ~in_bad) => last.err = NoError

C15_Witness ==
    /\ api = "impl" /\ last.op = "route" /\ last.on = 2
    /\ DeclaredOut(last.args[1].cls) = {}
    /\ InputMismatch(last.args[3], last.args[2])
    /\ last.err.exc = "TypeError"
    /\ last.res = NoResult

\* C16: an end call of the type-validating builder whose type is not among
\* the known declared outputs of from_node fails with the type-mismatch
\* error and returns no flow.
C16_EndTypeMismatch ==
    (/\ api = "impl" /\ last.op = "end"
     /\ last.args[1].name \in builders[last.on].reachable_nodes
     /\ ~KeyTaken(builders[last.on], last.args)
     /\ OutputMismatch(last.args[1], last.args[2])) =>
        /\ last.err.exc = "TypeError"
        /\ last.res = NoResult

\* C24: the routes of the builder a route call returns are the receiver's
\* routes followed by the new entry; the routes of the flow an end call
\* returns are the receiver's routes followed by the terminal entry; observe
\* returns the receiver's routes.  So a built flow holds r1..rn in
\* declaration order, the terminal entry last, and each intermediate
\* builder holds a prefix.  (The mapping-based builder adds the key to the
\* mapping and keeps every earlier entry.)
C24_DeclarationOrder ==
    (last.op # "none" /\ last.err = NoError) =>
        LET b == builders[last.on]
            res == last.res
        IN  IF api = "impl"
            THEN /\ last.op = "route" =>
                       res.routes = Append(b.routes, [key |-> <<last.args[1], last.args[2]>>,
                                                      dest |-> last.args[3]])
                 /\ last.op = "end" =>
                       res.routes = Append(b.routes, [key |-> <<last.args[1], last.args[2]>>,
                                                      dest |-> None])
                 /\ last.op = "observe" => res.routes = b.routes
                 /\ Len(b.routes) <= Len(res.routes)
                 /\ SubSeq(res.routes, 1, Len(b.routes)) = b.routes
            ELSE /\ last.op = "observe" => res.routes = b.routes
                 /\ last.op \in {"route", "end"} =>
                       /\ DOMAIN res.routes = DOMAIN b.routes \cup {CallKey(last.args)}
                       /\ \A k \in DOMAIN b.routes : res.routes[k] = b.routes[k]
                       /\ res.routes[CallKey(last.args)] =
                              IF last.op = "end" THEN None ELSE last.args[3]

C24_Witness ==
    /\ api = "impl"
    /\ Succeeded("route") /\ last.on = 2
    /\ Len(last.res.routes) = 2
    /\ last.res.routes[1] = builders[2].routes[1]
    /\ last.res.routes[2] = [key |-> <<last.args[1], last.args[2]>>, dest |-> last.args[3]]
    /\ last.res.routes[1].dest # last.res.routes[2].dest

\* C32: in every builder and flow made by create_flow / route / end, the
\* source node of each route entry, the terminal entry included, is the
\* starting node or the destination node of an earlier entry, also when
\* distinct nodes have the same name.
C32_SourceNodeReachable ==
    api = "impl" =>
        LET Reachable(b) ==
                \A i \in DOMAIN b.routes :
                    \/ b.routes[i].key[1] = b.starting_node
                    \/ \E j \in 1..(i - 1) : b.routes[j].dest = b.routes[i].key[1]
        IN  /\ \A k \in DOMAIN builders : Reachable(builders[k])
            /\ (last.op \in {"route", "end"} /\ last.err = NoError) => Reachable(last.res)

\* C34: the error of a rejected route or end call (unreachable node,
\* duplicate route, type mismatch) names the offending node by the value of
\* its name field: the source node, or the destination node when it cannot
\* accept the message type.
C34_ErrorNamesNodeByName ==
    (last.op \in {"route", "end"} /\ last.err # NoError) =>
        last.err.node = IF last.err.reason = "cannot accept" THEN last.args[3].name
                        ELSE last.args[1].name

(***************************************************************************)
(* Properties of a builder chain (SpecChain).                              *)
(***************************************************************************)
\* the handler a builder carries after observe(*observers) /
\* with_callbacks(handler) was given arg
GivenHandler(arg) == IF api = "impl" THEN CallbackHandler(arg) ELSE arg

\* C25: the builder that observe / with_callbacks returns for a given
\* handler carries exactly that handler, whatever handler the receiver
\* carried, and has the receiver's name, starting node, routes and
\* reachable nodes; route and end pass the receiver's handler on; and the
\* run of the built flow calls hooks on the handler of the chain's last
\* builder only, so after observe(h1), observe(h2) on h2 and never on h1.
C25_ObserveReplacesHandler ==
    /\ (last.op # "none" /\ last.err = NoError) =>
          LET b == builders[last.on]
              res == last.res
          IN  /\ (last.op = "observe" /\ (api = "impl" => last.args[1] # <<>>)) =>
                    /\ res = [b EXCEPT !.callbacks = GivenHandler(last.args[1])]
                    /\ res.name = b.name /\ res.routes = b.routes
                    /\ res.reachable_nodes = b.reachable_nodes
                    /\ IF api = "impl" THEN res.starting_node = b.starting_node
                       ELSE res.start_node = b.start_node
              /\ last.op \in {"route", "end"} => res.callbacks = b.callbacks
    /\ LET r == run["built"]
       IN  r.pc # "unbuilt" =>
              /\ r.flow.callbacks = Tip.callbacks
              /\ r.dispatched \subseteq {Tip.callbacks}
              /\ r.trace # <<>> => r.dispatched = {Tip.callbacks}
              /\ \A k \in 1..(Len(builders) - 1) :
                    builders[k].callbacks # Tip.callbacks =>
                        builders[k].callbacks \notin r.dispatched

C25_Witness ==
    LET r == run["built"]
    IN  /\ Len(builders) = 3
        /\ builders[2].callbacks \in HandlerArgs
        /\ builders[3].callbacks \in HandlerArgs
        /\ builders[2].callbacks # builders[3].callbacks
        /\ r.pc = "done" /\ r.result.kind = "return"
        /\ Len(r.trace) >= 4
        /\ r.dispatched = {builders[3].callbacks}

(***************************************************************************)
(* Properties of message construction (SpecMessages).                      *)
(***************************************************************************)
\* the arguments of the constructor call that last records
ArgCls == last.args[1]
ArgTriggeredById == last.args[3]

\* C27: constructing a concrete Event with triggered_by_id None (given or
\* left to its default) raises and adds no message; a concrete Command with
\* triggered_by_id None is constructed; every Event that was constructed
\* has a triggered_by_id that is not None.
C27_EventRequiresTrigger ==
    /\ [](/\ \A i \in DOMAIN Made.messages :
                 IsEvent(Made.messages[i].cls) => Made.messages[i].triggered_by_id # None
          /\ (last.op = "Message" /\ ArgTriggeredById \in {None, Missing}) =>
                 /\ ArgCls = "EvtT" => last.err = ValueError("EvtT") /\ last.res = NoResult
                 /\ ArgCls = "CmdT" =>
                        /\ last.err = NoError
                        /\ last.res.cls = "CmdT" /\ last.res.triggered_by_id = None
                        /\ last.res = Made.messages[Len(Made.messages)])
    /\ [][last'.err # NoError => Made.messages' = Made.messages]_vars

C27_Witness ==
    /\ last.op = "Message" /\ ArgCls = "EvtT" /\ ArgTriggeredById = None
    /\ last.err = ValueError("EvtT")
    /\ Len(Made.messages) = 1
    /\ Made.messages[1].cls = "CmdT" /\ Made.messages[1].triggered_by_id = None

\* C29 as claimed: any two instances that were constructed separately
\* compare unequal
C29_EqualityByIdentity ==
    \A i, j \in DOMAIN Made.messages :
        i # j => ~MessageEq(Made.messages[i], Made.messages[j])

\* C29: messages compare by class and field values.  An instance whose id
\* was left to its default compares unequal to every instance constructed
\* before it; two instances that compare equal have the same id, and the id
\* of the later one was passed by the caller.
C29_EqualityByFields ==
    \A i, j \in DOMAIN Made.messages :
        i < j =>
            /\ Made.default_id[j] => ~MessageEq(Made.messages[i], Made.messages[j])
            /\ MessageEq(Made.messages[i], Made.messages[j]) =>
                  /\ Made.messages[i].id = Made.messages[j].id
                  /\ ~Made.default_id[j]
                  /\ Made.messages[i] = Made.messages[j]

C29_Witness ==
    /\ Len(Made.messages) = 2
    /\ Made.default_id[1] /\ Made.default_id[2]
    /\ Made.messages[1].cls = Made.messages[2].cls
    /\ Made.messages[1].triggered_by_id = Made.messages[2].triggered_by_id
    /\ Made.messages[1].timestamp = Made.messages[2].timestamp
    /\ Made.messages[1].run_id = Made.messages[2].run_id
    /\ ~MessageEq(Made.messages[1], Made.messages[2])

(***************************************************************************)
(* Properties of node construction (SpecNodes).                            *)
(***************************************************************************)
Blank(name) == \A k \in DOMAIN name : name[k] \in Whitespace

\* C28: constructing a node whose name is empty or all whitespace raises
\* the invalid-name error and adds no node, and every other name is
\* accepted; the name of every node that was constructed, and every name in
\* the builder's reachable_nodes, is non-empty and not all whitespace.
C28_NodeNameValidated ==
    /\ [](/\ \A i \in DOMAIN Made.nodes :
                 Made.nodes[i].name # <<>> /\ ~Blank(Made.nodes[i].name)
          /\ \A b \in DOMAIN builders : \A name \in builders[b].reachable_nodes :
                 /\ name # <<>> /\ ~Blank(name)
                 /\ \E i \in DOMAIN Made.nodes : Made.nodes[i].name = name
          /\ last.op = "Node" =>
                 IF Blank(last.args[2])
                 THEN last.err = InvalidNode(last.args[2]) /\ last.res = NoResult
                 ELSE /\ last.err.exc = "none"
                      /\ last.res = Made.nodes[Len(Made.nodes)]
                      /\ strip(last.res.name) = strip(last.args[2]))
    /\ [][last'.op = "Node" /\ last'.err.exc # "none" => Made.nodes' = Made.nodes]_vars

C28_Witness ==
    /\ last.op = "Node" /\ last.args[2] = <<" ", " ">>
    /\ last.err = InvalidNode(<<" ", " ">>)
    /\ Len(Made.nodes) = 1
    /\ builders # <<>> /\ builders[1].reachable_nodes = {Made.nodes[1].name}

(***************************************************************************)
(* Properties of CompositeHandler (SpecComposite).                         *)
(***************************************************************************)
\* the sub-handlers whose hook raised, in the order of their calls
RECURSIVE FailedCalls(_, _)
FailedCalls(r, n) ==
    IF n = 0 THEN <<>>
    ELSE IF r.failed[n]
    THEN Append(FailedCalls(r, n - 1), [handler |-> r.calls[n], method |-> r.method])
    ELSE FailedCalls(r, n - 1)

\* C21: during a hook of a CompositeHandler the sub-handlers called so far
\* are the first ones in declaration order, each once; every exception of a
\* sub-handler is written to stderr; the hook never raises and returns only
\* after every sub-handler has been called.
C21_CompositeCallsAll ==
    LET r == run["hook"]
        handlers == r.self.handlers
    IN  /\ Len(r.calls) = r.i /\ r.i <= Len(handlers)
        /\ \A j \in 1..r.i : r.calls[j] = handlers[j]
        /\ r.stderr = FailedCalls(r, r.i)
        /\ r.result.kind # "raise"
        /\ r.pc = "done" => (r.result.kind = "return" /\ r.calls = handlers)

C21_Witness ==
    LET r == run["hook"]
    IN  /\ r.pc = "done"
        /\ Len(r.self.handlers) = 2
        /\ r.failed = <<TRUE, FALSE>>
        /\ r.calls = r.self.handlers
        /\ Len(r.stderr) = 1

(***************************************************************************)
(* Properties of _Flow.process (SpecImpl).                                 *)
(***************************************************************************)
\* every node of the flow declares its outputs and has a route for each
RouteComplete(flow) ==
    \A n \in FlowNodes(flow) :
        /\ _get_node_output_types(n) # {}
        /\ \A T \in _get_node_output_types(n) :
              \E i \in DOMAIN flow.routes : flow.routes[i].key = <<n, T>>

\* C14 as stated: when the nodes emit only messages of their declared
\* output types, no execution of a built flow ends in the no-route error.
C14_NoMissingRoute ==
    LET r == run["impl"]
    IN  r.declared => r.result.error.reason # "No route defined"

\* C14, amended: the builder does not check that every declared output of
\* every node has a route; the no-route error is unreachable for the flows
\* in which it has, when the nodes emit only their declared output types.
C14_CompleteFlowNeverUnrouted ==
    LET r == run["impl"]
    IN  (r.declared /\ RouteComplete(r.flow)) =>
            r.result.error.reason # "No route defined"

C14_Witness ==
    LET r == run["impl"]
    IN  /\ r.declared /\ RouteComplete(r.flow)
        /\ r.result.kind = "return"
        /\ r.hops = 2

\* C19: when G's executor has run the flow F as a node on a message M and
\* F.process(M) has been called directly, the message G routes onward from
\* F is the message the direct call returned; if the direct call raised,
\* G.process raised the same error.
C19_NestedFlowAsNode ==
    LET g == run["outer"]
        f == run["inner"]
        d == run["direct"]
    IN  (f.pc = "done" /\ d.pc = "done" /\ IsFlowNode(g.invoked[Len(g.invoked)].node)) =>
            /\ d.flow = g.invoked[Len(g.invoked)].node.flow
            /\ d.message = g.invoked[Len(g.invoked)].message
            /\ d.result.kind = "return" => g.output_message = d.result.message
            /\ d.result.kind = "raise" => (g.pc = "done" /\ g.result = d.result)

C19_Witness ==
    LET g == run["outer"]
        d == run["direct"]
    IN  /\ g.pc = "done" /\ g.result.kind = "return"
        /\ d.pc = "done" /\ d.result.kind = "return"
        /\ d.hops = 2
        /\ g.hops = 2
        /\ ~IsFlowNode(g.flow.starting_node)
        /\ g.result.message = d.result.message

\* C36: while a flow F without a handler runs as a node of a flow G that
\* has handler H, H has received on_node_start (and, once the node is done,
\* on_node_end) for the nodes invoked inside F as well as for those G
\* invoked itself.
C36_NestedFlowInheritsCallbacks ==
    LET g == run["outer"]
        f == run["inner"]
        received == g.hooks \o f.hooks
        Calls(hook) == {k \in DOMAIN received :
                          received[k].hook = hook /\ received[k].to = g.flow.callbacks}
    IN  (g.flow.callbacks # NoCallbacks /\ f.flow.callbacks = NoCallbacks
            /\ g.pc = "await") =>
            /\ Cardinality(Calls("on_node_start")) = Len(g.invoked) + Len(f.invoked)
            /\ \A i \in DOMAIN f.invoked :
                  \E k \in Calls("on_node_start") :
                      received[k].name = f.invoked[i].node.name

(***************************************************************************)
(* Properties of MessageFlow.process (SpecExec).                           *)
(***************************************************************************)
IsPrefix(s, t) == Len(s) <= Len(t) /\ \A i \in 1..Len(s) : s[i] = t[i]

\* what the i-th node invocation of run r did
OutcomeOf(r, i) == beh[<<r.invoked[i].node, r.invoked[i].message>>]
RouteKeyOf(r, i) == <<OutcomeOf(r, i), r.invoked[i].node.name>>
OutputOf(r, i) == Msg(OutcomeOf(r, i), r.invoked[i].message.id + 1)

\* C1: with a handler whose hooks raise at arbitrary calls, process invokes
\* the same nodes on the same messages and ends with the same returned
\* message or the same raised error as without a handler; no hook exception
\* reaches the caller.
C1_HookExceptionsAbsorbed ==
    LET h == run["hooked"]
        p == run["plain"]
    IN  /\ IsPrefix(h.invoked, p.invoked)
        /\ h.result.error.exc # "HookError"
        /\ Stopped(h) => h.invoked = p.invoked
        /\ h.pc = "done" => p.pc = "done" /\ h.result = p.result

C1_Witness ==
    LET h == run["hooked"]
    IN  /\ h.pc = "done" /\ h.result.kind = "return"
        /\ h.hops >= 2
        /\ h.stderr = [i \in 1..Len(h.trace) |-> h.trace[i].hook]

\* C26: the run of a flow built without a handler calls no hook and writes
\* nothing to stderr, at every point of the execution and however it ends;
\* and it invokes the same nodes and ends the same way as the run of the
\* flow with a handler none of whose hooks raised.
C26_NoHandlerNoDispatch ==
    LET h == run["hooked"]
        p == run["plain"]
    IN  /\ p.flow.callbacks = NoCallbacks
        /\ p.trace = <<>> /\ p.dispatched = {} /\ p.stderr = <<>>
        /\ (h.pc = "done" /\ h.stderr = <<>>) =>
              /\ p.pc = "done"
              /\ h.result = p.result
              /\ h.invoked = p.invoked

C26_Witness ==
    LET h == run["hooked"]
        p == run["plain"]
    IN  /\ p.pc = "done" /\ p.result.kind = "raise" /\ Len(p.invoked) = 2
        /\ h.pc = "done" /\ h.stderr = <<>> /\ Len(h.trace) = 6
        /\ p.trace = <<>>

\* C31: when process ends with an error (a node raised, or the output had
\* no route), on_flow_end is given the message that was the input of the
\* last node invoked, which is not that node's output; when process
\* returns, on_flow_end is given the message that is returned.
C31_FlowEndMessage ==
    LET r == run["hooked"]
        n == Len(r.trace)
        k == Len(r.invoked)
    IN  r.pc = "done" =>
          /\ n >= 1 /\ k >= 1
          /\ r.trace[n].hook = "on_flow_end"
          /\ IF r.result.kind = "raise"
             THEN /\ r.trace[n].message = r.invoked[k].message
                  /\ r.trace[n].message # Msg(r.trace[n].message.type, k)
                  /\ r.trace[n].error = r.result.error
                  /\ r.result.error.reason = "No route defined" =>
                        r.trace[n].message # r.output_message
             ELSE /\ r.trace[n].message = r.result.message
                  /\ r.trace[n].message = OutputOf(r, k)
                  /\ r.trace[n].error = NoError

C31_Witness ==
    LET r == run["hooked"]
    IN  /\ r.pc = "done" /\ r.result.kind = "raise"
        /\ r.result.error.reason = "No route defined"
        /\ Len(r.invoked) = 2
        /\ r.trace[Len(r.trace)].message = r.invoked[2].message
        /\ r.output_message.id = 2

\* C2: the hook trace is on_flow_start, then (on_node_start, on_node_end)
\* pairs for the same node, one pair per node invocation, then on_flow_end
\* once and last, on every way the execution ends.
C2_HookTraceShape ==
    LET r == run["hooked"]
        t == r.trace
        n == Len(t)
    IN  /\ r.pc # "flow_start" =>
              n >= 1 /\ t[1].hook = "on_flow_start" /\ t[1].name = r.flow.name
        /\ \A i \in 1..n :
              /\ t[i].hook = "on_flow_start" => i = 1
              /\ t[i].hook = "on_node_start" =>
                    /\ i % 2 = 0
                    /\ i < n => t[i + 1].hook = "on_node_end" /\ t[i + 1].name = t[i].name
                    /\ i = n => r.pc \in {"process", "node_end"}
                    /\ i \div 2 <= Len(r.invoked) => t[i].name = r.invoked[i \div 2].node.name
              /\ t[i].hook = "on_node_end" =>
                    /\ i % 2 = 1 /\ i >= 3
                    /\ t[i - 1].hook = "on_node_start" /\ t[i - 1].name = t[i].name
              /\ t[i].hook = "on_flow_end" =>
                    i = n /\ i >= 4 /\ r.pc = "done" /\ t[i].name = r.flow.name
        /\ r.pc = "done" =>
              n = 2 * r.hops + 2 /\ r.hops >= 1 /\ t[n].hook = "on_flow_end"

C2_Witness ==
    LET r == run["hooked"]
    IN  /\ r.pc = "done" /\ r.result.kind = "raise"
        /\ r.result.error.reason = "No route defined"
        /\ Len(r.trace) = 6
        /\ Len(r.stderr) >= 1

\* C3: when node.process raises E, on_node_end and then on_flow_end are
\* emitted with the message that was passed to the node and with E, no
\* node is invoked afterwards, and the caller receives E; without a handler
\* the caller receives E as well.
C3_NodeErrorPath ==
    \A e \in Execs :
        LET r == run[e]
            k == Len(r.invoked)
            t == r.trace
            n == Len(t)
        IN  \A i \in 1..k :
              OutcomeOf(r, i) = "raise" =>
                /\ i = k
                /\ r.pc \in {"node_end", "flow_end", "done"}
                /\ r.pc = "done" =>
                      /\ r.result = [kind |-> "raise", message |-> NoMsg,
                                     error |-> NodeError(r.invoked[k].node)]
                      /\ r.flow.callbacks # NoCallbacks =>
                            /\ n >= 2
                            /\ t[n - 1] = [hook |-> "on_node_end",
                                           name |-> r.invoked[k].node.name,
                                           message |-> r.invoked[k].message,
                                           error |-> NodeError(r.invoked[k].node)]
                            /\ t[n] = [hook |-> "on_flow_end", name |-> r.flow.name,
                                       message |-> r.invoked[k].message,
                                       error |-> NodeError(r.invoked[k].node)]

C3_Witness ==
    /\ run["plain"].pc = "done" /\ run["hooked"].pc = "done"
    /\ run["hooked"].result.error.exc = "RuntimeError"
    /\ run["hooked"].hops = 2
    /\ run["hooked"].stderr = <<>>

\* C4: when a node returns a message whose (type, node) key is not in the
\* route table, process raises the unrouted-message error instead of
\* returning, on_flow_end is emitted once with that error, and no further
\* node is invoked.
C4_UnroutedMessage ==
    \A e \in Execs :
        LET r == run[e]
            k == Len(r.invoked)
            t == r.trace
            n == Len(t)
        IN  \A i \in 1..k :
              (OutcomeOf(r, i) # "raise" /\ RouteKeyOf(r, i) \notin DOMAIN r.flow.routes) =>
                LET unrouted == [exc |-> "ValueError", reason |-> "No route defined",
                                 node |-> r.invoked[i].node.name, type |-> OutcomeOf(r, i)]
                IN  /\ i = k
                    /\ r.pc \in {"node_end", "route", "flow_end", "done"}
                    /\ r.pc = "done" =>
                          /\ r.result = [kind |-> "raise", message |-> NoMsg, error |-> unrouted]
                          /\ r.flow.callbacks # NoCallbacks =>
                                /\ n >= 1
                                /\ t[n].hook = "on_flow_end" /\ t[n].error = unrouted
                                /\ \A j \in 1..n : t[j].hook = "on_flow_end" => j = n

C4_Witness ==
    /\ run["plain"].pc = "done" /\ run["hooked"].pc = "done"
    /\ run["hooked"].result.error.reason = "No route defined"
    /\ run["hooked"].hops = 2
    /\ Len(run["hooked"].stderr) = 0

\* C6: the first node invoked is the starting node on the initial message;
\* each later invocation is the routed destination of the previous node's
\* output, on that output; process returns M' exactly when the route of M'
\* is the terminal one, and then type(M') is the terminal entry's outcome.
C6_DispatchStateMachine ==
    \A e \in Execs :
        LET r == run[e]
            k == Len(r.invoked)
            routes == r.flow.routes
        IN  /\ k >= 1 => r.invoked[1] = [node |-> r.flow.start_node, message |-> r.message]
            /\ \A i \in 1..(k - 1) :
                  /\ OutcomeOf(r, i) # "raise"
                  /\ RouteKeyOf(r, i) \in DOMAIN routes
                  /\ routes[RouteKeyOf(r, i)] # None
                  /\ r.invoked[i + 1] = [node |-> routes[RouteKeyOf(r, i)],
                                         message |-> OutputOf(r, i)]
            /\ r.result.kind = "return" <=>
                  /\ r.pc = "done" /\ k >= 1
                  /\ OutcomeOf(r, k) # "raise"
                  /\ RouteKeyOf(r, k) \in DOMAIN routes
                  /\ routes[RouteKeyOf(r, k)] = None
            /\ r.result.kind = "return" =>
                  /\ r.result.message = OutputOf(r, k)
                  /\ \A key \in DOMAIN routes :
                        routes[key] = None => key[1] = r.result.message.type

C6_Witness ==
    LET r == run["plain"]
    IN  /\ r.pc = "done" /\ r.result.kind = "return"
        /\ r.hops = 2
        /\ r.invoked[2].node # r.invoked[1].node
        /\ r.result.message.type # r.invoked[2].message.type

\* the positions of the calls of one hook in a trace
HookCalls(r, hook) == {i \in DOMAIN r.trace : r.trace[i].hook = hook}
\* the position of the k-th call of a hook
NthCall(r, hook, k) ==
    CHOOSE i \in HookCalls(r, hook) :
        Cardinality({j \in HookCalls(r, hook) : j <= i}) = k

\* C35: the lines written to stderr are, in order, one per hook call that
\* raised, each naming the hook of that call; when the calls that raised
\* are exactly the calls of on_node_start, an execution that returns after
\* k node invocations has written k lines, all naming on_node_start, and
\* returns what the run without a handler returns.
C35_OneLinePerHookException ==
    LET r == run["hooked"]
        p == run["plain"]
        k == Len(r.invoked)
    IN  /\ r.stderr = r.raised
        /\ Len(r.raised) <= Len(r.trace)
        /\ (/\ r.pc = "done" /\ r.result.kind = "return"
            /\ Len(r.raised) = Cardinality(HookCalls(r, "on_node_start"))
            /\ \A i \in DOMAIN r.raised : r.raised[i] = "on_node_start") =>
               /\ r.stderr = [i \in 1..k |-> "on_node_start"]
               /\ r.result = p.result
               /\ r.result.message = OutputOf(r, k)

C35_Witness ==
    LET r == run["hooked"]
    IN  /\ r.pc = "done" /\ r.result.kind = "return"
        /\ Len(r.invoked) = 2
        /\ r.raised = <<"on_node_start", "on_node_start">>
        /\ r.stderr = <<"on_node_start", "on_node_start">>

\* C17: in an execution with a handler, at every moment the number of
\* node.process calls begun is at most the number of on_node_start calls
\* and at least the number of on_node_end calls, and on_node_start is at
\* most one call ahead of on_node_end: start(k), process(k), end(k),
\* start(k+1) happen in this order.  The k-th on_node_start and on_node_end
\* carry the name of the k-th node invoked, the k-th on_node_start its input.
C17_HopOrder ==
    LET r == run["hooked"]
        starts == Cardinality(HookCalls(r, "on_node_start"))
        ends == Cardinality(HookCalls(r, "on_node_end"))
        k == Len(r.invoked)
    IN  /\ ends <= k /\ k <= starts /\ starts <= ends + 1
        /\ r.pc = "process" => (starts = k + 1 /\ ends = k)
        /\ r.pc = "node_end" => (starts = k /\ ends = k - 1)
        /\ \A i \in 1..k :
              LET s == r.trace[NthCall(r, "on_node_start", i)]
              IN  s.name = r.invoked[i].node.name /\ s.message = r.invoked[i].message
        /\ \A i \in 1..ends :
              /\ r.trace[NthCall(r, "on_node_end", i)].name = r.invoked[i].node.name
              /\ NthCall(r, "on_node_start", i) < NthCall(r, "on_node_end", i)
              /\ i < starts => NthCall(r, "on_node_end", i) < NthCall(r, "on_node_start", i + 1)

C17_Witness ==
    LET r == run["hooked"]
    IN  /\ r.pc = "done"
        /\ Len(r.invoked) = 3
        /\ Cardinality(HookCalls(r, "on_node_start")) = 3
        /\ Cardinality(HookCalls(r, "on_node_end")) = 3
        /\ r.stderr # <<>>

\* the call made alone with the message of a concurrent call
AloneOf(c) == IF c = "c1" THEN "a1" ELSE "a2"

\* C20: each of two interleaved executions of one flow invokes the nodes,
\* calls the hooks and ends as the same call does when made alone, and no
\* step of process changes the flow (name, start node, routes, callbacks)
\* of any execution.
C20_ConcurrentExecutionsIndependent ==
    /\ [](\A c \in Concurrent :
            LET a == AloneOf(c)
            IN  /\ run[a].message = run[c].message
                /\ IsPrefix(run[a].invoked, run[c].invoked)
                /\ IsPrefix(run[a].trace, run[c].trace)
                /\ Stopped(run[a]) =>
                      /\ run[a].invoked = run[c].invoked
                      /\ run[a].trace = run[c].trace
                      /\ run[a].result = run[c].result)
    /\ [][\A e \in DOMAIN run : run'[e].flow = run[e].flow]_vars

C20_Witness ==
    /\ DOMAIN run = Concurrent \cup Alone
    /\ \A e \in DOMAIN run : run[e].pc = "done"
    /\ run["c1"].hops = 2 /\ run["c2"].hops = 3
    /\ run["c1"].result.kind = "return" /\ run["c2"].result.kind = "raise"
    /\ run["c1"].message.type = run["c2"].message.type

\* C18: when the task is cancelled inside node.process, the last two hook
\* calls of the execution are on_node_end and on_flow_end, both with the
\* cancellation as error, and the caller observes the cancellation.
C18_CancellationErrorPath ==
    LET r == run["hooked"]
        n == Len(r.trace)
    IN  (r.pc = "done" /\ r.result.error = CancelledError) =>
            /\ n >= 2
            /\ r.trace[n - 1].hook = "on_node_end" /\ r.trace[n - 1].error = CancelledError
            /\ r.trace[n].hook = "on_flow_end" /\ r.trace[n].error = CancelledError

(***************************************************************************)
(* Termination of MessageFlow.process (SpecLive).                          *)
(***************************************************************************)
\* the node names one route away from a name in S
RouteSuccessors(routes, S) ==
    {routes[key].name : key \in {k \in DOMAIN routes : k[2] \in S /\ routes[k] # None}}
RECURSIVE RouteReach(_, _, _)
RouteReach(routes, S, k) ==
    IF k = 0 THEN S
    ELSE RouteReach(routes, S \cup RouteSuccessors(routes, S), k - 1)
\* no node name is reachable from itself along the routes
Acyclic(routes) ==
    \A name \in NodeNames :
        name \notin RouteReach(routes, RouteSuccessors(routes, {name}),
                               Cardinality(DOMAIN routes))

\* C7 (as claimed): every execution eventually returns or raises.
C7_AlwaysTerminates == <>(run["plain"].pc = "done")

\* C7 (amended): every execution of a flow whose routes contain no cycle
\* eventually returns or raises.
C7_AcyclicFlowTerminates ==
    \A e \in Execs : <>(run[e].pc = "done" \/ ~Acyclic(run[e].flow.routes))

C7_Witness ==
    LET r == run["hooked"]
    IN  /\ r.pc = "done" /\ r.result.kind = "return"
        /\ ~r.history
        /\ Acyclic(r.flow.routes)
        /\ r.current_node # r.flow.start_node

(***************************************************************************)
(* Properties of ObservableFlow (SpecObs).                                 *)
(***************************************************************************)
\* C22: while observers of a message are still running the flow is in the
\* gather and nothing else moves: the tasks of the gather are all observers
\* matching the message, and whenever a node is about to be invoked, a
\* route is looked up or the final message has been returned, every message
\* seen so far (the input and each node output) has been observed to
\* completion by all its matching observers.
C22_ObserversCompleteBeforeResume ==
    LET r == run["observed"]
    IN  /\ r.pending # {} => r.pc = "gather"
        /\ r.pc = "gather" =>
              /\ r.tasks = _get_observers_for(r, Observing(r).type)
              /\ r.pending \subseteq DOMAIN r.tasks
        /\ (r.pc \in {"process", "route"} \/ r.result.kind = "return") =>
              Len(r.observed) = r.hops + 1
        /\ r.pc \in {"notify", "gather"} => Len(r.observed) = r.hops
        /\ \A k \in DOMAIN r.observed :
              /\ r.observed[k].by = _get_observers_for(r, r.observed[k].message.type)
              /\ r.observed[k].message.id = k - 1

C22_Witness ==
    LET r == run["observed"]
    IN  /\ r.result.kind = "return"
        /\ r.hops = 2
        /\ \A k \in DOMAIN r.observed : Len(r.observed[k].by) = 2

\* C23: for every message type T the observers notified are exactly the
\* registrations made for T or for a supertype of T, each once; those made
\* for unrelated types or strict subtypes of T are not notified.  Every
\* message an execution has observed was given to exactly these.
C23_ObserverTypeMatching ==
    LET r == run["observed"]
    IN  /\ \A T \in ObservedTypes :
              LET res == _get_observers_for(r, T)
                  expected == {r.observers[p[1]].obs[p[2]] :
                                  p \in {q \in (DOMAIN r.observers) \X (1..MaxObservers) :
                                      /\ q[2] \in DOMAIN r.observers[q[1]].obs
                                      /\ issubclass(T, r.observers[q[1]].type)}}
              IN  /\ {res[i] : i \in DOMAIN res} = expected
                  /\ Len(res) = Cardinality(expected)
        /\ \A k \in DOMAIN r.observed :
              \A o \in {ObserverOf(n) : n \in 1..MaxObservers} :
                  (\E j \in DOMAIN r.observed[k].by : r.observed[k].by[j] = o) <=>
                      \E i \in DOMAIN r.observers :
                          /\ issubclass(r.observed[k].message.type, r.observers[i].type)
                          /\ \E j \in DOMAIN r.observers[i].obs : r.observers[i].obs[j] = o

C23_Witness ==
    LET r == run["observed"]
    IN  /\ Len(r.observers) = 2
        /\ Len(r.observed) >= 1
        /\ Len(r.observed[1].by) = 1
        /\ \E i \in DOMAIN r.observers :
              /\ r.observers[i].type = "Message"
              /\ r.observers[i].obs = r.observed[1].by
        /\ \E i \in DOMAIN r.observers :
              r.observers[i].type \notin {"Message", r.observed[1].message.type}

\* C37: the observers are notified of the initial message before the first
\* node is invoked, and of the output of the i-th node invoked as the
\* (i+1)-th notification, after that node returned and before the route of
\* its output is looked up; a node that raised has no output to notify.
\* When the execution has returned after k hops, an observer registered for
\* Message has been given exactly k + 1 messages, one per notification.
C37_ObservationOrder ==
    LET r == run["observed"]
        n == Len(r.observed)
        k == Len(r.invoked)
        Given(o) == {i \in DOMAIN r.observed :
                        \E j \in DOMAIN r.observed[i].by : r.observed[i].by[j] = o}
    IN  /\ k >= 1 => n >= 1
        /\ n >= 1 => r.observed[1].message = r.message
        /\ n <= k + 1
        /\ \A i \in 2..n :
              /\ r.observed[i].message.id = r.invoked[i - 1].message.id + 1
              /\ r.observed[i].message =
                    IF i <= k THEN r.invoked[i].message ELSE r.output_message
        /\ r.pc = "route" =>
              /\ n = k + 1
              /\ r.current_node = r.invoked[k].node
        /\ (r.pc \in {"notify", "gather"} /\ r.stage = "output") =>
              /\ n = k
              /\ r.current_node = r.invoked[k].node
        /\ r.pc = "process" => n = k + 1
        /\ r.result.kind = "raise" => n = k
        /\ r.result.kind = "return" =>
              /\ n = k + 1
              /\ r.result.message = r.observed[n].message
              /\ \A i \in DOMAIN r.observers :
                    r.observers[i].type = "Message" =>
                        \A j \in DOMAIN r.observers[i].obs :
                            Cardinality(Given(r.observers[i].obs[j])) = k + 1

C37_Witness ==
    LET r == run["observed"]
    IN  /\ r.result.kind = "return"
        /\ Len(r.invoked) = MaxHops
        /\ Len(r.observed) = MaxHops + 1
        /\ \E i \in DOMAIN r.observers :
              /\ r.observers[i].type = "Message"
              /\ r.observers[i].obs # <<>>
        /\ \E i \in DOMAIN r.observers : r.observers[i].type # "Message"

\* C5: if an observer raises while observing a message, the exception
\* ends the flow: no node is invoked after the failing observation and no
\* final message is returned.
C5_ObserverFailFast ==
    LET r == run["observed"]
    IN  r.log # {} =>
          /\ r.hops = r.failed_at
          /\ r.result.kind # "return"

(***************************************************************************)
(* Properties of an ObservableFlow without observers (SpecWrap).           *)
(***************************************************************************)
\* C30: execute of an ObservableFlow without observers invokes the nodes
\* the core flow's process invokes, on the same messages in the same order,
\* and ends as process ends: with the same returned message, or with the
\* same error (the node's, or the missing-route error).
C30_NoObserversSameAsCore ==
    LET o == run["observed"]
        p == run["plain"]
    IN  /\ IsPrefix(o.invoked, p.invoked)
        /\ o.pc = "done" =>
              /\ p.pc = "done"
              /\ o.invoked = p.invoked
              /\ o.result = p.result

\* C33: when the core flow carries a handler, execute of the ObservableFlow
\* around it calls the hooks that process of the core flow calls, in the
\* same order with the same arguments.
C33_WrappedFlowSameHooks ==
    LET o == run["observed"]
        p == run["plain"]
    IN  (p.flow.callbacks # NoCallbacks /\ o.pc = "done" /\ p.pc = "done") =>
            o.trace = p.trace

(***************************************************************************)
(* Properties of the string-outcome API (SpecLegacy).                      *)
(***************************************************************************)
\* C38: build returns a flow only when exactly one route of the builder
\* leads to None, and raises for any other number of such routes.
C38_ExactlyOneTermination ==
    (api = "legacy" /\ last.op = "build") =>
        /\ last.err = NoError => Cardinality(none_routes(builders[1])) = 1
        /\ Cardinality(none_routes(builders[1])) # 1 => last.err # NoError

====
